---- MODULE Spec2Model ----
(***************************************************************************)
(* Reading plans of the Bible-study backend: the canonical index, the      *)
(* range validator, the day-distribution engine and the plan controller    *)
(* (createPlan, getPlanById, updatePlan, markDayComplete, getPlanProgress) *)
(* over a document store of ReadingPlan documents; then the handlers of    *)
(* reading progress, login, registration, password reset, bookmarks,       *)
(* notes, topics and account deletion over the other collections, the      *)
(* login rate limiter and the cache.                                       *)
(***************************************************************************)
EXTENDS Integers, Sequences, FiniteSets, TLC

VARIABLES plans, nextId, resp, procs,
          users, clock, limiter, otps,
          progress, notes, bookmarks, highlights, topics, cache, lastId

\* the User collection, the server's clock, the login rate limiter's store,
\* the OTP collection
accountVars == <<users, clock, limiter, otps>>
\* the other collections, the cache and the last _id given in each collection
itemVars == <<progress, notes, bookmarks, highlights, topics, cache, lastId>>
\* the ReadingPlan collection and the requests in flight
planVars == <<plans, nextId, procs>>

vars == <<planVars, resp, accountVars, itemVars>>

----------------------------------------------------------------------------
(* Bounds of the model.                                                    *)

\* largest durationInDays a request of SpecDistribute carries
MaxDays == 4
\* number of plan documents ever created in one behaviour
MaxPlans == 1

----------------------------------------------------------------------------
(* Values.                                                                 *)

\* a field a request body leaves out (JavaScript undefined)
Undefined == -1
\* completedAt of a day that was never completed
NoDate == -1
\* the time new Date() returns
Now == 7

Users == {"u1", "u2"}
Procs == {"r1", "r2"}
\* the login requests that can be in flight together
LoginProcs == {"l1", "l2", "l3", "l4", "l5"}

Min(a, b) == IF a < b THEN a ELSE b

----------------------------------------------------------------------------
(* 4.1 Canonical Bible Index: the first books of the canon, in order.      *)

Books == <<"Genesis", "Exodus", "Leviticus">>

ChapterCount == [Genesis |-> 50, Exodus |-> 40, Leviticus |-> 27]

IsKnownBook(b) == \E i \in 1..Len(Books) : Books[i] = b

orderOf(b) == CHOOSE i \in 1..Len(Books) : Books[i] = b

chapterCountOf(b) == ChapterCount[b]

compare(b1, c1, b2, c2) ==
    IF orderOf(b1) < orderOf(b2) THEN "before"
    ELSE IF orderOf(b1) > orderOf(b2) THEN "after"
    ELSE IF c1 < c2 THEN "before"
    ELSE IF c1 > c2 THEN "after"
    ELSE "same"

----------------------------------------------------------------------------
(* 4.2 Range Validator.                                                    *)

resolveEndChapter(endBook, endChapter) ==
    IF endChapter = Undefined THEN chapterCountOf(endBook) ELSE endChapter

validateRange(startBook, startChapter, endBook, endChapter) ==
    IF ~IsKnownBook(startBook) \/ ~IsKnownBook(endBook)
    THEN [valid |-> FALSE, error |-> "UnknownBook"]
    ELSE LET ec == resolveEndChapter(endBook, endChapter) IN
         IF \/ startChapter < 1
            \/ startChapter > chapterCountOf(startBook)
            \/ ec < 1
            \/ ec > chapterCountOf(endBook)
         THEN [valid |-> FALSE, error |-> "InvalidChapter"]
         ELSE IF compare(startBook, startChapter, endBook, ec) = "after"
         THEN [valid |-> FALSE, error |-> "RangeReversed"]
         ELSE [valid |-> TRUE, error |-> "none"]

----------------------------------------------------------------------------
(* 4.3 Reading Distribution Engine.                                        *)

\* the chapters lo..hi of one book, as (bookId, chapter) pairs
BookChapters(b, lo, hi) ==
    IF hi < lo THEN <<>>
    ELSE [i \in 1..(hi - lo + 1) |-> [bookId |-> b, chapter |-> lo + i - 1]]

RECURSIVE ChaptersFrom(_, _, _, _)
ChaptersFrom(o, lo, oe, ec) ==
    IF o > oe THEN <<>>
    ELSE LET hi == IF o = oe THEN ec ELSE chapterCountOf(Books[o])
         IN  BookChapters(Books[o], lo, hi) \o ChaptersFrom(o + 1, 1, oe, ec)

\* step 1: the unit sequence of the range, in canonical order
unitSequence(startBook, startChapter, endBook, endChapter) ==
    IF ~IsKnownBook(startBook) \/ ~IsKnownBook(endBook) THEN <<>>
    ELSE ChaptersFrom(orderOf(startBook), startChapter, orderOf(endBook),
                      resolveEndChapter(endBook, endChapter))

\* steps 3 and 4: the number of chapters of day i
bucketSize(i, totalChapters, days) ==
    IF days >= totalChapters THEN 1
    ELSE (totalChapters \div days)
         + (IF i <= totalChapters % days THEN 1 ELSE 0)

\* chapter k of the bucket continues the run of chapter k - 1
continuesRun(bucket, k) ==
    /\ bucket[k].bookId = bucket[k - 1].bookId
    /\ bucket[k].chapter = bucket[k - 1].chapter + 1

\* last index of the run of contiguous same-book chapters that starts at i
runEnd(bucket, i) ==
    CHOOSE j \in i..Len(bucket) :
        /\ j = Len(bucket) \/ ~continuesRun(bucket, j + 1)
        /\ \A k \in (i + 1)..j : continuesRun(bucket, k)

\* step 5: run-length encoding of one bucket into book-scoped ReadingUnits
RECURSIVE coalesceFrom(_, _)
coalesceFrom(bucket, i) ==
    IF i > Len(bucket) THEN <<>>
    ELSE LET j == runEnd(bucket, i)
         IN  <<[bookId |-> bucket[i].bookId,
                startChapter |-> bucket[i].chapter,
                endChapter |-> bucket[j].chapter]>>
             \o coalesceFrom(bucket, j + 1)

coalesce(bucket) == coalesceFrom(bucket, 1)

\* step 5: walk the unit sequence, one bucket per day
RECURSIVE sliceDays(_, _, _, _, _)
sliceDays(units, i, n, totalChapters, days) ==
    IF i > n THEN <<>>
    ELSE LET k == bucketSize(i, totalChapters, days)
         IN  <<[dayNumber |-> i, readings |-> coalesce(SubSeq(units, 1, k))]>>
             \o sliceDays(SubSeq(units, k + 1, Len(units)), i + 1, n,
                          totalChapters, days)

distributeReadings(startBook, startChapter, endBook, endChapter, days) ==
    LET units == unitSequence(startBook, startChapter, endBook, endChapter)
        totalChapters == Len(units)
    IN  IF days <= 0 \/ totalChapters = 0 THEN <<>>
        ELSE sliceDays(units, 1, Min(days, totalChapters), totalChapters, days)

----------------------------------------------------------------------------
(* ReadingPlan documents and the responses of the plan controller.         *)

\* a response that carries no data
NoBody == [none |-> TRUE]

NoResp == [op |-> "none", status |-> 0, user |-> "none", id |-> 0,
           message |-> "none", body |-> NoBody]

Respond(op, status, user, id, message, body) ==
    [op |-> op, status |-> status, user |-> user, id |-> id,
     message |-> message, body |-> body]

\* String.prototype.trim on a name given as a sequence of characters
RECURSIVE trimStart(_)
trimStart(s) ==
    IF Len(s) > 0 /\ Head(s) = " " THEN trimStart(Tail(s)) ELSE s

RECURSIVE trimEnd(_)
trimEnd(s) ==
    IF Len(s) > 0 /\ s[Len(s)] = " " THEN trimEnd(SubSeq(s, 1, Len(s) - 1))
    ELSE s

trim(s) == trimEnd(trimStart(s))

\* the map of createPlan with the readings taken from the mirrored index
dailyReadingsOf_mirrored(distribution, startDate) ==
    [i \in 1..Len(distribution) |->
        [dayNumber   |-> distribution[i].dayNumber,
         date        |-> startDate + (distribution[i].dayNumber - 1),
         readings    |-> distribution[Len(distribution) + 1 - i].readings,
         isCompleted |-> FALSE,
         completedAt |-> NoDate]]

\* the map of createPlan stopping one day short
dailyReadingsOf_oneShort(distribution, startDate) ==
    [i \in 1..(Len(distribution) - 1) |->
        [dayNumber   |-> distribution[i].dayNumber,
         date        |-> startDate + (distribution[i].dayNumber - 1),
         readings    |-> distribution[i].readings,
         isCompleted |-> FALSE,
         completedAt |-> NoDate]]

\* distribution.map(d => ({dayNumber, date, readings, isCompleted: false}))
dailyReadingsOf(distribution, startDate) ==
    [i \in 1..Len(distribution) |->
        [dayNumber   |-> distribution[i].dayNumber,
         date        |-> startDate + (distribution[i].dayNumber - 1),
         readings    |-> distribution[i].readings,
         isCompleted |-> FALSE,
         completedAt |-> NoDate]]

\* new ReadingPlan({...}): status defaults to 'active', the version key to 0
newReadingPlan(user, body, startChapter, dailyReadings) ==
    [userId         |-> user,
     name           |-> trim(body.name),
     startBook      |-> body.startBook,
     startChapter   |-> startChapter,
     endBook        |-> body.endBook,
     endChapter     |-> body.endChapter,
     startDate      |-> body.startDate,
     durationInDays |-> body.durationInDays,
     dailyReadings  |-> dailyReadings,
     status         |-> "active",
     isPublic       |-> body.isPublic,
     sharedWith     |-> body.sharedWith,
     version        |-> 0]

\* the required-fields test of createPlan
missingRequired(body) ==
    \/ body.name = <<>>
    \/ body.startBook = ""
    \/ body.endBook = ""
    \/ body.startDate = Undefined
    \/ body.durationInDays = 0

\* startChapter = 1 when the body leaves it out
startChapterOf(body) ==
    IF body.startChapter = Undefined THEN 1 ELSE body.startChapter

\* createPlan going on to the distribution without looking at rangeValidation
createPlanResult_noRangeCheck(user, body) ==
    IF missingRequired(body)
    THEN [status |-> 400, message |-> "Missing required fields"]
    ELSE LET distribution ==
                 distributeReadings(body.startBook, startChapterOf(body),
                                    body.endBook, body.endChapter,
                                    body.durationInDays)
         IN  IF Len(distribution) = 0
             THEN [status |-> 400,
                   message |-> "Could not generate plan from given range"]
             ELSE [status |-> 201,
                   message |-> "Reading plan created successfully",
                   plan |-> newReadingPlan(
                       user, body, startChapterOf(body),
                       dailyReadingsOf(distribution, body.startDate))]

\* createPlan up to its response: the status, the message, the document
createPlanResult(user, body) ==
    IF missingRequired(body)
    THEN [status |-> 400, message |-> "Missing required fields"]
    ELSE LET rangeValidation ==
                 validateRange(body.startBook, startChapterOf(body),
                               body.endBook, body.endChapter)
         IN  IF ~rangeValidation.valid
             THEN [status |-> 400, message |-> rangeValidation.error]
             ELSE LET distribution ==
                          distributeReadings(body.startBook, startChapterOf(body),
                                             body.endBook, body.endChapter,
                                             body.durationInDays)
                  IN  IF Len(distribution) = 0
                      THEN [status |-> 400,
                            message |-> "Could not generate plan from given range"]
                      ELSE [status |-> 201,
                            message |-> "Reading plan created successfully",
                            plan |-> newReadingPlan(
                                user, body, startChapterOf(body),
                                dailyReadingsOf(distribution, body.startDate))]

createPlan(user, body) ==
    LET r == createPlanResult(user, body) IN
    IF r.status = 201
    THEN /\ nextId <= MaxPlans
         /\ plans' = plans @@ (nextId :> r.plan)
         /\ nextId' = nextId + 1
         /\ resp' = Respond("createPlan", 201, user, nextId, r.message, r.plan)
         /\ UNCHANGED procs
    ELSE /\ resp' = Respond("createPlan", r.status, user, 0, r.message, NoBody)
         /\ UNCHANGED <<plans, nextId, procs>>

----------------------------------------------------------------------------
(* The other handlers of the plan controller.                              *)

\* ReadingPlan.findById(id)
findById(id) == id \in DOMAIN plans

\* a lookup that also finds the plans the requester may read
findOwned_orViewer(id, user) ==
    /\ id \in DOMAIN plans
    /\ \/ plans[id].userId = user
       \/ plans[id].isPublic
       \/ user \in plans[id].sharedWith

\* ReadingPlan.findOne({ _id: id, userId: user._id })
findOwned(id, user) == id \in DOMAIN plans /\ plans[id].userId = user

\* the access check without the sharedWith test
canRead_ownerOrPublic(plan, user) ==
    plan.userId = user \/ plan.isPublic

\* the access check of getPlanById
canRead(plan, user) ==
    LET isOwner  == plan.userId = user
        isPublic == plan.isPublic
        isShared == \E uid \in plan.sharedWith : uid = user
    IN  isOwner \/ isPublic \/ isShared

getPlanById(user, id) ==
    /\ resp' = IF ~findById(id)
               THEN Respond("getPlanById", 404, user, id, "Plan not found", NoBody)
               ELSE IF ~canRead(plans[id], user)
               THEN Respond("getPlanById", 403, user, id, "Access denied", NoBody)
               ELSE Respond("getPlanById", 200, user, id,
                            "Plan retrieved successfully", plans[id])
    /\ UNCHANGED <<plans, nextId, procs>>

\* one path of a save: written when the handler changed it, else as stored
written(stored, original, modified) ==
    IF modified # original THEN modified ELSE stored

\* the paths below dailyReadings: a day list of another length is written
\* whole, else each changed field of each day on its own
writtenDays(stored, original, modified) ==
    IF Len(modified) # Len(original) \/ Len(stored) # Len(original)
    THEN written(stored, original, modified)
    ELSE [i \in DOMAIN stored |->
            [stored[i] EXCEPT
                !.dayNumber   = written(@, original[i].dayNumber,
                                        modified[i].dayNumber),
                !.date        = written(@, original[i].date, modified[i].date),
                !.readings    = written(@, original[i].readings,
                                        modified[i].readings),
                !.isCompleted = written(@, original[i].isCompleted,
                                        modified[i].isCompleted),
                !.completedAt = written(@, original[i].completedAt,
                                        modified[i].completedAt)]]

\* a save that increments the version key on every write
saveModified_versioned(stored, original, modified) ==
    [stored EXCEPT
        !.version        = @ + 1,
        !.userId         = written(@, original.userId, modified.userId),
        !.name           = written(@, original.name, modified.name),
        !.startBook      = written(@, original.startBook, modified.startBook),
        !.startChapter   = written(@, original.startChapter, modified.startChapter),
        !.endBook        = written(@, original.endBook, modified.endBook),
        !.endChapter     = written(@, original.endChapter, modified.endChapter),
        !.startDate      = written(@, original.startDate, modified.startDate),
        !.durationInDays = written(@, original.durationInDays,
                                   modified.durationInDays),
        !.dailyReadings  = writtenDays(@, original.dailyReadings,
                                       modified.dailyReadings),
        !.status         = written(@, original.status, modified.status),
        !.isPublic       = written(@, original.isPublic, modified.isPublic),
        !.sharedWith     = written(@, original.sharedWith, modified.sharedWith)]

\* plan.save(): Mongoose writes the paths the handler modified, and no others,
\* into the stored document
saveModified(stored, original, modified) ==
    [stored EXCEPT
        !.userId         = written(@, original.userId, modified.userId),
        !.name           = written(@, original.name, modified.name),
        !.startBook      = written(@, original.startBook, modified.startBook),
        !.startChapter   = written(@, original.startChapter, modified.startChapter),
        !.endBook        = written(@, original.endBook, modified.endBook),
        !.endChapter     = written(@, original.endChapter, modified.endChapter),
        !.startDate      = written(@, original.startDate, modified.startDate),
        !.durationInDays = written(@, original.durationInDays,
                                   modified.durationInDays),
        !.dailyReadings  = writtenDays(@, original.dailyReadings,
                                       modified.dailyReadings),
        !.status         = written(@, original.status, modified.status),
        !.isPublic       = written(@, original.isPublic, modified.isPublic),
        !.sharedWith     = written(@, original.sharedWith, modified.sharedWith)]

\* the save finds the document it read: same _id and, for a write below an
\* array element, the version key it read (which no handler increments)
saveMatches(id, original) ==
    id \in DOMAIN plans /\ plans[id].version = original.version

\* assignments that copy the duration and the share list of the body as well
applyUpdates_assignAll(plan, updates) ==
    [plan EXCEPT
        !.name     = IF updates.name # <<>> THEN updates.name ELSE @,
        !.status   = IF updates.status # "" THEN updates.status ELSE @,
        !.isPublic = IF updates.isPublic # "" THEN updates.isPublic = "true" ELSE @,
        !.durationInDays = IF "durationInDays" \in DOMAIN updates
                           THEN updates.durationInDays ELSE @,
        !.sharedWith     = IF "sharedWith" \in DOMAIN updates
                           THEN updates.sharedWith ELSE @]

\* the assignments of updatePlan; a body field left out is "" (name: <<>>)
applyUpdates(plan, updates) ==
    [plan EXCEPT
        !.name     = IF updates.name # <<>> THEN updates.name ELSE @,
        !.status   = IF updates.status # "" THEN updates.status ELSE @,
        !.isPublic = IF updates.isPublic # "" THEN updates.isPublic = "true" ELSE @]

updatePlan(user, id, updates) ==
    IF ~findOwned(id, user)
    THEN /\ resp' = Respond("updatePlan", 404, user, id,
                            "Plan not found or access denied", NoBody)
         /\ UNCHANGED <<plans, nextId, procs>>
    ELSE LET plan  == plans[id]
             saved == saveModified(plans[id], plan, applyUpdates(plan, updates))
         IN  /\ plans' = [plans EXCEPT ![id] = saved]
             /\ resp' = Respond("updatePlan", 200, user, id,
                                "Plan updated successfully", saved)
             /\ UNCHANGED <<nextId, procs>>

deletePlan(user, id) ==
    IF ~findOwned(id, user)
    THEN /\ resp' = Respond("deletePlan", 404, user, id,
                            "Plan not found or access denied", NoBody)
         /\ UNCHANGED <<plans, nextId, procs>>
    ELSE /\ plans' = [i \in DOMAIN plans \ {id} |-> plans[i]]
         /\ resp' = Respond("deletePlan", 200, user, id,
                            "Plan deleted successfully", plans[id])
         /\ UNCHANGED <<nextId, procs>>

\* parseInt of the :dayNumber route parameter; NaN for a non-numeric one
NaN == -999
parseInt(param) ==
    CASE param = "0" -> 0
      [] param = "1" -> 1
      [] param = "2" -> 2
      [] param = "3" -> 3
      [] OTHER -> NaN

\* d.dayNumber === dayNum
strictEquals(a, b) == a # NaN /\ b # NaN /\ a = b

\* a lookup that falls back to the first day when no day matches
findDay_orFirst(plan, dayNum) ==
    IF \E i \in 1..Len(plan.dailyReadings) :
           strictEquals(plan.dailyReadings[i].dayNumber, dayNum)
    THEN CHOOSE i \in 1..Len(plan.dailyReadings) :
           /\ strictEquals(plan.dailyReadings[i].dayNumber, dayNum)
           /\ \A j \in 1..(i - 1) :
                 ~strictEquals(plan.dailyReadings[j].dayNumber, dayNum)
    ELSE 1

\* plan.dailyReadings.find(d => d.dayNumber === dayNum): its index, 0 if none
findDay(plan, dayNum) ==
    IF \E i \in 1..Len(plan.dailyReadings) :
           strictEquals(plan.dailyReadings[i].dayNumber, dayNum)
    THEN CHOOSE i \in 1..Len(plan.dailyReadings) :
           /\ strictEquals(plan.dailyReadings[i].dayNumber, dayNum)
           /\ \A j \in 1..(i - 1) :
                 ~strictEquals(plan.dailyReadings[j].dayNumber, dayNum)
    ELSE 0

\* plan.dailyReadings.every(d => d.isCompleted)
allComplete(plan) ==
    \A i \in 1..Len(plan.dailyReadings) : plan.dailyReadings[i].isCompleted

\* markDayComplete without the allComplete test
completeDay_noStatus(plan, i) ==
    [plan EXCEPT !.dailyReadings[i].isCompleted = TRUE,
                 !.dailyReadings[i].completedAt = Now]

\* the assignments of markDayComplete on the document it read
completeDay(plan, i) ==
    LET marked == [plan EXCEPT !.dailyReadings[i].isCompleted = TRUE,
                               !.dailyReadings[i].completedAt = Now]
    IN  IF allComplete(marked) THEN [marked EXCEPT !.status = "completed"]
        ELSE marked

\* markDayComplete, the read and the save in one step
markDayComplete(user, id, dayNumber) ==
    LET dayNum == parseInt(dayNumber) IN
    IF ~findOwned(id, user)
    THEN /\ resp' = Respond("markDayComplete", 404, user, id,
                            "Plan not found", NoBody)
         /\ UNCHANGED <<plans, nextId, procs>>
    ELSE IF findDay(plans[id], dayNum) = 0
    THEN /\ resp' = Respond("markDayComplete", 404, user, id,
                            "Day not found in plan", NoBody)
         /\ UNCHANGED <<plans, nextId, procs>>
    ELSE LET plan  == plans[id]
             saved == saveModified(plans[id], plan,
                                   completeDay(plan, findDay(plan, dayNum)))
         IN  /\ plans' = [plans EXCEPT ![id] = saved]
             /\ resp' = Respond("markDayComplete", 200, user, id,
                                "Day marked as complete", saved)
             /\ UNCHANGED <<nextId, procs>>

\* Math.round(x * 100) / 100 of the percentage 100 * num / den, in hundredths
roundedPercent(num, den) == (2 * 10000 * num + den) \div (2 * den)

RECURSIVE sumChapters(_)
sumChapters(readings) ==
    IF readings = <<>> THEN 0
    ELSE (Head(readings).endChapter - Head(readings).startChapter + 1)
         + sumChapters(Tail(readings))

RECURSIVE sumDays(_, _)
sumDays(days, onlyCompleted) ==
    IF days = <<>> THEN 0
    ELSE (IF onlyCompleted /\ ~Head(days).isCompleted THEN 0
          ELSE sumChapters(Head(days).readings))
         + sumDays(Tail(days), onlyCompleted)

\* the data of getPlanProgress; the percentages are in hundredths of a percent
progressOf(plan) ==
    LET totalDays         == plan.durationInDays
        completedDays     == Cardinality({i \in 1..Len(plan.dailyReadings) :
                                             plan.dailyReadings[i].isCompleted})
        totalChapters     == sumDays(plan.dailyReadings, FALSE)
        completedChapters == sumDays(plan.dailyReadings, TRUE)
    IN  [totalDays         |-> totalDays,
         completedDays     |-> completedDays,
         percentDays       |-> IF totalDays > 0
                               THEN roundedPercent(completedDays, totalDays) ELSE 0,
         totalChapters     |-> totalChapters,
         completedChapters |-> completedChapters,
         percentChapters   |-> IF totalChapters > 0
                               THEN roundedPercent(completedChapters, totalChapters)
                               ELSE 0,
         status            |-> plan.status]

\* an access check of getPlanProgress that lets every reader of the plan in
isPlanOwner_orViewer(plan, user) ==
    plan.userId = user \/ plan.isPublic \/ user \in plan.sharedWith

\* the access check of getPlanProgress
isPlanOwner(plan, user) == plan.userId = user

getPlanProgress(user, id) ==
    /\ resp' = IF ~findById(id)
               THEN Respond("getPlanProgress", 404, user, id, "Plan not found", NoBody)
               ELSE IF ~isPlanOwner(plans[id], user)
               THEN Respond("getPlanProgress", 403, user, id, "Access denied", NoBody)
               ELSE Respond("getPlanProgress", 200, user, id, "ok",
                            progressOf(plans[id]))
    /\ UNCHANGED <<plans, nextId, procs>>

----------------------------------------------------------------------------
(* The User model and the stores next to the ReadingPlan collection, as    *)
(* they are when two users have registered and nothing else has happened.  *)

\* time is counted in steps of five minutes; a local calendar day
DayTicks == 288

\* bcrypt.hash in the pre-save hook; bcrypt.compare hashes the candidate
hash(password) == <<"bcrypt", password>>

emailOf == [u1 |-> "u1@x", u2 |-> "u2@x"]

\* a registered user: the schema's defaults and the hashed password
newUser(id) ==
    [email |-> emailOf[id],
     password |-> hash("Right1!"),
     streak |-> [current |-> 0, longest |-> 0, lastDate |-> NoDate],
     failedLoginAttempts |-> 0,
     accountLockedUntil |-> NoDate,
     resetPasswordToken |-> <<>>,
     resetPasswordExpires |-> NoDate,
     lastResetRequest |-> NoDate,
     googleId |-> ""]

InitStores ==
    /\ users = [u \in Users |-> newUser(u)]
    /\ clock = 0
    /\ limiter = <<>>
    /\ otps = <<>>
    /\ progress = <<>>
    /\ notes = <<>>
    /\ bookmarks = <<>>
    /\ highlights = <<>>
    /\ topics = <<>>
    /\ cache = [isConnected |-> TRUE, store |-> <<>>]
    /\ lastId = [Note |-> 0, Bookmark |-> 0, Highlight |-> 0, Topic |-> 0]

----------------------------------------------------------------------------
(* Requests of SpecDistribute: every range over the chapter numbers below, *)
(* every duration up to MaxDays.                                           *)

BookInputs == {"Genesis", "Exodus", "Leviticus", "Atlantis"}
ChapterInputs == {0, 1, 2, 3, 4, 49, 50, 51}

RangeBodies ==
    [name : {<<"a">>}, startBook : BookInputs,
     startChapter : ChapterInputs \cup {Undefined},
     endBook : BookInputs, endChapter : ChapterInputs \cup {Undefined},
     startDate : {100}, durationInDays : (-1)..MaxDays,
     isPublic : {FALSE}, sharedWith : {{}}]

InitDistribute ==
    /\ plans = <<>>
    /\ nextId = 1
    /\ resp = NoResp
    /\ procs = [p \in Procs \cup LoginProcs |-> [pc |-> "idle"]]
    /\ InitStores

CreateOnEmptyStore ==
    /\ DOMAIN plans = {}
    /\ \E body \in RangeBodies : createPlan("u1", body)
    /\ UNCHANGED <<accountVars, itemVars>>

NextDistribute == CreateOnEmptyStore

SpecDistribute == InitDistribute /\ [][NextDistribute]_vars

----------------------------------------------------------------------------
(* Requests of Spec: the plan handlers run one after the other.  Plans are *)
(* created by u1 (the users are interchangeable); u2 is the other          *)
(* requester, who may be listed in sharedWith.                             *)

Owners == {"u1"}

\* Genesis 50 (one chapter) and Genesis 50 - Exodus 2 (three chapters) in two
\* days, with the reversed range Genesis 50 - Genesis 2 and the chapter
\* Exodus 50, which Exodus does not have
RangedBodies ==
    [name : {<<" ", "a">>}, startBook : {"Genesis"}, startChapter : {50},
     endBook : {"Genesis", "Exodus"}, endChapter : {2, 50}, startDate : {100},
     durationInDays : {2}, isPublic : BOOLEAN, sharedWith : {{}, {"u2"}}]

SomeBody ==
    [name |-> <<"a">>, startBook |-> "Genesis", startChapter |-> Undefined,
     endBook |-> "Exodus", endChapter |-> Undefined, startDate |-> 100,
     durationInDays |-> 2, isPublic |-> FALSE, sharedWith |-> {}]

\* bodies with a field missing, an unknown book, a chapter out of its book,
\* a duration that is not positive
BadBodies ==
    {[SomeBody EXCEPT !.name = <<>>],
     [SomeBody EXCEPT !.startDate = Undefined],
     [SomeBody EXCEPT !.durationInDays = 0],
     [SomeBody EXCEPT !.durationInDays = -1],
     [SomeBody EXCEPT !.startBook = "Atlantis"],
     [SomeBody EXCEPT !.endBook = "Atlantis"],
     [SomeBody EXCEPT !.startChapter = 0],
     [SomeBody EXCEPT !.startBook = "Exodus", !.endBook = "Genesis"]}

PlanBodies == RangedBodies \cup BadBodies

\* bodies of updatePlan that carry status or isPublic (a field left out is "")
PlanUpdates ==
    {updates \in [name : {<<>>}, status : {"", "active", "completed"},
                  isPublic : {"", "true", "false"}] :
        updates.status = "" \/ updates.isPublic = ""}

\* ids a request can name: every id a plan can get
RequestIds == 1..MaxPlans

DayParams == {"1", "2", "3", "x"}

Init ==
    /\ plans = <<>>
    /\ nextId = 1
    /\ resp = NoResp
    /\ procs = [p \in Procs \cup LoginProcs |-> [pc |-> "idle"]]
    /\ InitStores

CreatePlan ==
    /\ \E user \in Owners, body \in PlanBodies : createPlan(user, body)
    /\ UNCHANGED <<accountVars, itemVars>>

GetPlanById ==
    /\ \E user \in Users, id \in RequestIds : getPlanById(user, id)
    /\ UNCHANGED <<accountVars, itemVars>>

UpdatePlan ==
    /\ \E user \in Users, id \in RequestIds, updates \in PlanUpdates :
          updatePlan(user, id, updates)
    /\ UNCHANGED <<accountVars, itemVars>>

DeletePlan ==
    /\ \E user \in Users, id \in RequestIds : deletePlan(user, id)
    /\ UNCHANGED <<accountVars, itemVars>>

MarkDayComplete ==
    /\ \E user \in Users, id \in RequestIds, dayNumber \in DayParams :
          markDayComplete(user, id, dayNumber)
    /\ UNCHANGED <<accountVars, itemVars>>

GetPlanProgress ==
    /\ \E user \in Users, id \in RequestIds : getPlanProgress(user, id)
    /\ UNCHANGED <<accountVars, itemVars>>

Next ==
    \/ CreatePlan
    \/ GetPlanById
    \/ UpdatePlan
    \/ DeletePlan
    \/ MarkDayComplete
    \/ GetPlanProgress

Spec == Init /\ [][Next]_vars

----------------------------------------------------------------------------
(* markDayComplete as the server runs it: the handler awaits the read and  *)
(* the save, and other requests run in between.                            *)

\* up to the end of `await ReadingPlan.findOne(...)` and the find of the day
markRead(p, user, id, dayNumber) ==
    LET dayNum == parseInt(dayNumber) IN
    /\ procs[p].pc = "idle"
    /\ procs' = [procs EXCEPT ![p] =
          IF ~findOwned(id, user)
          THEN [pc |-> "done", user |-> user, id |-> id, day |-> 0,
                status |-> 404, message |-> "Plan not found"]
          ELSE IF findDay(plans[id], dayNum) = 0
          THEN [pc |-> "done", user |-> user, id |-> id, day |-> 0,
                status |-> 404, message |-> "Day not found in plan"]
          ELSE [pc |-> "read", user |-> user, id |-> id,
                day |-> findDay(plans[id], dayNum), doc |-> plans[id]]]
    /\ UNCHANGED <<plans, nextId, resp>>

\* the assignments and `await plan.save()`; a save that fails is the 500
markSave(p) ==
    /\ procs[p].pc = "read"
    /\ LET id       == procs[p].id
           original == procs[p].doc
           modified == completeDay(original, procs[p].day)
       IN  IF saveMatches(id, original)
           THEN /\ plans' = [plans EXCEPT
                                ![id] = saveModified(plans[id], original, modified)]
                /\ procs' = [procs EXCEPT ![p] =
                      [pc |-> "done", user |-> procs[p].user, id |-> id,
                       day |-> procs[p].day, status |-> 200,
                       message |-> "Day marked as complete"]]
           ELSE /\ plans' = plans
                /\ procs' = [procs EXCEPT ![p] =
                      [pc |-> "done", user |-> procs[p].user, id |-> id,
                       day |-> procs[p].day, status |-> 500,
                       message |-> "Internal server error"]]
    /\ UNCHANGED <<nextId, resp>>

\* the response is sent; the next request can come in
markReturn(p) ==
    /\ procs[p].pc = "done"
    /\ procs' = [procs EXCEPT ![p] = [pc |-> "idle"]]
    /\ UNCHANGED <<plans, nextId, resp>>

ConcBodies == {body \in RangedBodies : ~body.isPublic /\ body.sharedWith = {}}

ConcCreatePlan ==
    /\ \E user \in Owners, body \in ConcBodies : createPlan(user, body)
    /\ UNCHANGED <<accountVars, itemVars>>

MarkRead ==
    /\ \E p \in Procs, user \in Users, id \in RequestIds, dayNumber \in DayParams :
          markRead(p, user, id, dayNumber)
    /\ UNCHANGED <<accountVars, itemVars>>

MarkSave == (\E p \in Procs : markSave(p)) /\ UNCHANGED <<accountVars, itemVars>>

MarkReturn == (\E p \in Procs : markReturn(p)) /\ UNCHANGED <<accountVars, itemVars>>

NextConc ==
    \/ ConcCreatePlan
    \/ MarkRead
    \/ MarkSave
    \/ MarkReturn

SpecConc == Init /\ [][NextConc]_vars

----------------------------------------------------------------------------
(* updatePlan with bodies that carry, next to name, status and isPublic,   *)
(* every other field of a plan with a value no stored plan has.            *)

WideUpdates ==
    [name : {<<>>, <<"b">>}, status : {"", "active", "completed"},
     isPublic : {"", "true", "false"},
     userId : {"u2"}, startBook : {"Exodus"}, startChapter : {1},
     endBook : {"Leviticus"}, endChapter : {1}, startDate : {999},
     durationInDays : {9}, dailyReadings : {<<>>}, sharedWith : {{"u1", "u2"}}]

SharedBodies ==
    {body \in RangedBodies :
        body.endBook = "Exodus" /\ body.endChapter = 2 /\ body.sharedWith = {"u2"}}

SharedCreatePlan ==
    /\ \E user \in Owners, body \in SharedBodies : createPlan(user, body)
    /\ UNCHANGED <<accountVars, itemVars>>

WideUpdatePlan ==
    /\ \E user \in Users, id \in RequestIds, updates \in WideUpdates :
          updatePlan(user, id, updates)
    /\ UNCHANGED <<accountVars, itemVars>>

NextUpdate ==
    \/ SharedCreatePlan
    \/ WideUpdatePlan
    \/ MarkDayComplete

SpecUpdate == Init /\ [][NextUpdate]_vars

----------------------------------------------------------------------------
(* Reading progress: logReading and the reading streak of the user.        *)

\* number of calendar days a behaviour of SpecStreak covers after the first
MaxClockDays == 3

Max(a, b) == IF a > b THEN a ELSE b

\* today.setHours(0, 0, 0, 0), and new Date(year, month, date) of a date
startOfDay(t) == t - (t % DayTicks)

\* cache.deleteCacheByPattern / cache.deleteCache: the store without the
\* keys that match; nothing happens while the cache is not connected
deleteCacheWhere(c, matches(_)) ==
    IF c.isConnected
    THEN [c EXCEPT !.store = [k \in {key \in DOMAIN @ : ~matches(key)} |-> @[k]]]
    ELSE c

\* a streak update that goes on counting after a gap
updateStreak_gapCounts(streak, today) ==
    LET lastDateStart == IF streak.lastDate # NoDate
                         THEN startOfDay(streak.lastDate) ELSE NoDate
    IN  [current  |-> IF lastDateStart = NoDate THEN 1
                      ELSE IF lastDateStart = today THEN streak.current
                      ELSE streak.current + 1,
         longest  |-> IF lastDateStart = NoDate THEN Max(streak.longest, 1)
                      ELSE IF lastDateStart = today THEN streak.longest
                      ELSE Max(streak.longest, streak.current + 1),
         lastDate |-> today]

\* a streak logic that counts every reading, also a second one of a day
updateStreak_sameDayCounts(streak, today) ==
    [current  |-> streak.current + 1,
     longest  |-> Max(streak.longest, streak.current + 1),
     lastDate |-> today]

\* the streak logic of logReading and `user.streak.lastDate = today`
updateStreak(streak, today) ==
    LET lastDateStart == IF streak.lastDate # NoDate
                         THEN startOfDay(streak.lastDate) ELSE NoDate
        yesterday     == today - DayTicks
        counted ==
            IF lastDateStart = NoDate
            THEN [streak EXCEPT !.current = 1, !.longest = Max(@, 1)]
            ELSE IF lastDateStart = today
            THEN streak
            ELSE IF lastDateStart = yesterday
            THEN [streak EXCEPT !.current = @ + 1,
                                !.longest = Max(@, streak.current + 1)]
            ELSE IF lastDateStart < yesterday
            THEN [streak EXCEPT !.current = 1, !.longest = Max(@, 1)]
            ELSE streak
    IN  [counted EXCEPT !.lastDate = today]

\* progress.chaptersRead with the key `${bookId}:${chapter}` added
chaptersReadWith(user, body) ==
    (IF user \in DOMAIN progress THEN progress[user] ELSE {})
        \cup {<<body.bookId, body.chapter>>}

logReading(user, body) ==
    IF body.bookId = "" \/ body.chapter = Undefined
    THEN /\ resp' = Respond("logReading", 400, user, 0,
                            "bookId and chapter are required", NoBody)
         /\ UNCHANGED <<planVars, accountVars, itemVars>>
    ELSE IF body.chapter < 1
    THEN /\ resp' = Respond("logReading", 400, user, 0,
                            "chapter must be a positive number", NoBody)
         /\ UNCHANGED <<planVars, accountVars, itemVars>>
    ELSE IF user \notin DOMAIN users
    THEN /\ resp' = Respond("logReading", 404, user, 0, "User not found", NoBody)
         /\ UNCHANGED <<planVars, accountVars, itemVars>>
    ELSE LET streak       == updateStreak(users[user].streak, startOfDay(clock))
             chaptersRead == chaptersReadWith(user, body)
         IN  /\ users' = [users EXCEPT ![user].streak = streak]
             /\ progress' = [u \in DOMAIN progress \cup {user} |->
                                IF u = user THEN chaptersRead ELSE progress[u]]
             /\ cache' = deleteCacheWhere(cache,
                            LAMBDA key : key[1] = "progress" /\ key[2] = user)
             /\ resp' = Respond("logReading", 200, user, 0,
                                "Reading progress logged successfully",
                                [chaptersRead |-> chaptersRead, streak |-> streak])
             /\ UNCHANGED <<planVars, clock, limiter, otps,
                            notes, bookmarks, highlights, topics, lastId>>

\* time passes between two requests
passTime(ticks, limit) ==
    /\ clock + ticks <= limit
    /\ clock' = clock + ticks
    /\ UNCHANGED <<planVars, resp, users, limiter, otps, itemVars>>

ReadingBodies == [bookId : {"", "Genesis"}, chapter : {Undefined, 0, 1, 2}]

\* half a day, a day, two days
StreakSteps == {DayTicks \div 2, DayTicks, 2 * DayTicks}

NextStreak ==
    \/ \E user \in Owners, body \in ReadingBodies : logReading(user, body)
    \/ \E ticks \in StreakSteps : passTime(ticks, MaxClockDays * DayTicks)

SpecStreak == Init /\ [][NextStreak]_vars

----------------------------------------------------------------------------
(* Login: the rate limiter in front of the route, the handler, and the     *)
(* account lock of the User model.                                         *)

\* windowMs of loginRateLimiter: 15 minutes
LoginWindow == 3
\* max of loginRateLimiter
LoginMaxHits == 5
\* failed attempts at which incrementFailedAttempts locks the account
MaxFailedAttempts == 5
\* lockUntil.setHours(lockUntil.getHours() + 2)
LockTicks == 24

\* largest hit count the limiter's store reaches in a behaviour of SpecLogin
MaxHits == LoginMaxHits + 2
\* number of limiter windows a behaviour of SpecLogin covers
MaxWindows == 2

\* the limiter's store entry of a client after one more request: a window
\* starts with the first request and ends windowMs later; every request in
\* it is counted, blocked or not
hit(ip) ==
    IF ip \in DOMAIN limiter /\ clock < limiter[ip].resetTime
    THEN [limiter[ip] EXCEPT !.totalHits = @ + 1]
    ELSE [totalHits |-> 1, resetTime |-> clock + LoginWindow]

\* a limit that lets one more request through
overLimit_sixth(totalHits) == totalHits > LoginMaxHits + 1

\* the limiter's test: the request is blocked
overLimit(totalHits) == totalHits > LoginMaxHits

\* email.toLowerCase()
toLowerCase(email) == IF email = "U1@X" THEN "u1@x" ELSE email

\* user.isAccountLocked()
isAccountLocked(user) ==
    user.accountLockedUntil # NoDate /\ clock < user.accountLockedUntil

\* user.comparePassword(password)
comparePassword(user, candidatePassword) == hash(candidatePassword) = user.password

\* the assignments of user.incrementFailedAttempts()
incrementFailedAttempts(user) ==
    [user EXCEPT
        !.failedLoginAttempts = @ + 1,
        !.accountLockedUntil =
            IF user.failedLoginAttempts + 1 >= MaxFailedAttempts
            THEN clock + LockTicks ELSE @]

\* the assignments of user.resetFailedAttempts()
resetFailedAttempts(user) ==
    [user EXCEPT !.failedLoginAttempts = 0, !.accountLockedUntil = NoDate]

\* user.save() of the two methods: the paths they modified are written
saveUser(stored, original, modified) ==
    [stored EXCEPT
        !.failedLoginAttempts = written(@, original.failedLoginAttempts,
                                        modified.failedLoginAttempts),
        !.accountLockedUntil  = written(@, original.accountLockedUntil,
                                        modified.accountLockedUntil)]

\* login up to the password check: the answer it gives here (status 0: none
\* yet), the account it found and whether the password is the account's
loginRead(body) ==
    LET found == {u \in DOMAIN users : users[u].email = toLowerCase(body.email)}
        id    == CHOOSE u \in found : TRUE
    IN  IF body.email = "" \/ body.password = ""
        THEN [status |-> 400, message |-> "Email and password are required"]
        ELSE IF found = {}
        THEN [status |-> 401, message |-> "Invalid email or password"]
        ELSE IF isAccountLocked(users[id])
        THEN [status |-> 423, message |-> "Account is locked", id |-> id,
              isPasswordValid |-> comparePassword(users[id], body.password)]
        ELSE [status |-> 0, id |-> id, user |-> users[id],
              isPasswordValid |-> comparePassword(users[id], body.password)]

\* login from the password check on: the document it saves and its answer
loginWrite(read) ==
    IF read.isPasswordValid
    THEN [user |-> resetFailedAttempts(read.user), status |-> 200,
          message |-> "Login successful", token |-> <<"jwt", read.id>>]
    ELSE LET updatedUser == incrementFailedAttempts(read.user)
         IN  [user |-> updatedUser,
              status |-> IF updatedUser.failedLoginAttempts >= MaxFailedAttempts
                         THEN 423 ELSE 401,
              message |-> IF updatedUser.failedLoginAttempts >= MaxFailedAttempts
                          THEN "Account locked" ELSE "Invalid email or password",
              token |-> <<>>]

\* POST /login: loginRateLimiter, then login; the requests run one by one.
\* The response names the client in its user field.
login(ip, body) ==
    /\ hit(ip).totalHits <= MaxHits
    /\ limiter' = [i \in DOMAIN limiter \cup {ip} |->
                      IF i = ip THEN hit(ip) ELSE limiter[i]]
    /\ IF overLimit(hit(ip).totalHits)
       THEN /\ resp' = Respond("login", 429, ip, 0,
                               "Too many login attempts from this IP", NoBody)
            /\ UNCHANGED users
       ELSE LET read == loginRead(body) IN
            IF read.status # 0
            THEN /\ resp' = Respond("login", read.status, ip, 0, read.message, NoBody)
                 /\ UNCHANGED users
            ELSE LET write == loginWrite(read) IN
                 /\ users' = [users EXCEPT
                                 ![read.id] = saveUser(@, read.user, write.user)]
                 /\ resp' = Respond("login", write.status, ip, 0, write.message,
                                    [token |-> write.token])
    /\ UNCHANGED <<planVars, clock, otps, itemVars>>

Clients == {"ip1", "ip2"}

LoginBodies ==
    [email : {"u1@x", "U1@X", "nobody@x"}, password : {"", "Right1!", "wrong"}]

\* a login, or ten minutes pass: the second such step ends a window
NextLogin ==
    \/ \E ip \in Clients, body \in LoginBodies : login(ip, body)
    \/ passTime(LoginWindow - 1, MaxWindows * LoginWindow)

SpecLogin == Init /\ [][NextLogin]_vars

----------------------------------------------------------------------------
(* login as the server runs it: the handler awaits findOne, the password   *)
(* comparison and the save, and other logins run in between.  Each request *)
(* of LoginProcs is handled once.                                          *)

\* findOne, the lock check and the password comparison of one request
loginFind(p, body) ==
    /\ procs[p].pc = "idle"
    /\ LET read == loginRead(body) IN
       procs' = [procs EXCEPT ![p] =
          IF read.status = 0
          THEN [pc |-> "found", read |-> read]
          ELSE [pc |-> "done", status |-> read.status, token |-> <<>>,
                wrongPassword |-> read.status = 423 /\ ~read.isPasswordValid]]
    /\ UNCHANGED <<plans, nextId, resp, accountVars, itemVars>>

\* incrementFailedAttempts or resetFailedAttempts with its save, and the answer
loginSave(p) ==
    /\ procs[p].pc = "found"
    /\ LET read  == procs[p].read
           write == loginWrite(read)
       IN  /\ users' = [users EXCEPT ![read.id] = saveUser(@, read.user, write.user)]
           /\ procs' = [procs EXCEPT ![p] =
                 [pc |-> "done", status |-> write.status, token |-> write.token,
                  wrongPassword |-> ~read.isPasswordValid]]
    /\ UNCHANGED <<plans, nextId, resp, clock, limiter, otps, itemVars>>

ConcLoginBodies == [email : {"u1@x"}, password : {"Right1!", "wrong"}]

\* a step of a login, or an hour passes: the second such step ends a lock
\* set at the start
NextLoginConc ==
    \/ \E p \in LoginProcs, body \in ConcLoginBodies : loginFind(p, body)
    \/ \E p \in LoginProcs : loginSave(p)
    \/ passTime(LockTicks \div 2, LockTicks)

SpecLoginConc == Init /\ [][NextLoginConc]_vars

----------------------------------------------------------------------------
(* Bookmarks and notes.  A bookId and a content are sequences of           *)
(* characters; a body field that is left out is Undefined for a number,    *)
(* NoString for a visibility and NoText for a bookId or a content.         *)

\* number of documents ever created in one collection in one behaviour
MaxItems == 2

NoString == "undefined"
NoText == <<"undefined">>

\* the _id the next document of a collection gets
newId(model) == lastId[model] + 1

\* Model.findOne(filter): the documents of a collection that match
findAll(collection, matches(_)) == {id \in DOMAIN collection : matches(collection[id])}

\* the first validation failure of a verse range, "" if there is none
rangeError(body) ==
    IF body.chapter # Undefined /\ body.chapter < 1
    THEN "chapter must be at least 1"
    ELSE IF body.verseStart # Undefined /\ body.verseStart < 1
    THEN "verseStart must be at least 1"
    ELSE IF body.verseCount # Undefined /\ body.verseCount < 1
    THEN "verseCount must be at least 1"
    ELSE ""

rangeMissing(body) ==
    \/ body.bookId \in {NoText, <<>>}
    \/ body.chapter = Undefined
    \/ body.verseStart = Undefined
    \/ body.verseCount = Undefined

\* Bookmark.findOne({ userId, bookId, chapter, verseStart, verseCount })
existingBookmark(user, body) ==
    findAll(bookmarks, LAMBDA b : /\ b.userId = user
                                  /\ b.bookId = body.bookId
                                  /\ b.chapter = body.chapter
                                  /\ b.verseStart = body.verseStart
                                  /\ b.verseCount = body.verseCount)

createBookmark(user, body) ==
    IF rangeMissing(body) \/ rangeError(body) # ""
    THEN /\ resp' = Respond("createBookmark", 400, user, 0,
                            IF rangeMissing(body)
                            THEN "bookId, chapter, verseStart, and verseCount are required"
                            ELSE rangeError(body), NoBody)
         /\ UNCHANGED <<planVars, accountVars, itemVars>>
    ELSE IF existingBookmark(user, body) # {}
    THEN /\ resp' = Respond("createBookmark", 409, user, 0,
                            "Bookmark already exists for this verse range", NoBody)
         /\ UNCHANGED <<planVars, accountVars, itemVars>>
    ELSE LET newBookmark == [userId |-> user, bookId |-> trim(body.bookId),
                             chapter |-> body.chapter,
                             verseStart |-> body.verseStart,
                             verseCount |-> body.verseCount]
         IN  /\ newId("Bookmark") <= MaxItems
             /\ bookmarks' = bookmarks @@ (newId("Bookmark") :> newBookmark)
             /\ lastId' = [lastId EXCEPT !.Bookmark = newId("Bookmark")]
             /\ cache' = deleteCacheWhere(cache,
                            LAMBDA key : key[1] = "bookmarks:list" /\ key[2] = user)
             /\ resp' = Respond("createBookmark", 201, user, newId("Bookmark"),
                                "Bookmark created successfully", newBookmark)
             /\ UNCHANGED <<planVars, accountVars,
                            progress, notes, highlights, topics>>

\* the validation of content and visibility in createNote, "" if they pass
noteFieldsError(body) ==
    IF body.content \in {NoText, <<>>}
    THEN "bookId, chapter, verseStart, verseCount, and content are required"
    ELSE IF trim(body.content) = <<>>
    THEN "content must be a non-empty string"
    ELSE IF body.visibility \notin {NoString, "", "private", "public"}
    THEN "visibility must be either private or public"
    ELSE ""

\* a duplicate test of createNote that never finds anything
existingNote_none(user, body) == {}

\* Note.findOne({ userId, bookId: bookId.trim(), chapter, verseStart, verseCount })
existingNote(user, body) ==
    findAll(notes, LAMBDA n : /\ n.userId = user
                              /\ n.bookId = trim(body.bookId)
                              /\ n.chapter = body.chapter
                              /\ n.verseStart = body.verseStart
                              /\ n.verseCount = body.verseCount)

createNote(user, body) ==
    LET error == IF rangeMissing(body)
                 THEN "bookId, chapter, verseStart, verseCount, and content are required"
                 ELSE IF noteFieldsError(body) # "" THEN noteFieldsError(body)
                 ELSE rangeError(body)
    IN
    IF error # ""
    THEN /\ resp' = Respond("createNote", 400, user, 0, error, NoBody)
         /\ UNCHANGED <<planVars, accountVars, itemVars>>
    ELSE IF existingNote(user, body) # {}
    THEN /\ resp' = Respond("createNote", 409, user, 0,
                            "Note already exists for this verse range", NoBody)
         /\ UNCHANGED <<planVars, accountVars, itemVars>>
    ELSE LET newNote == [userId |-> user, bookId |-> trim(body.bookId),
                         chapter |-> body.chapter,
                         verseStart |-> body.verseStart,
                         verseCount |-> body.verseCount,
                         content |-> trim(body.content),
                         visibility |-> IF body.visibility \in {NoString, ""}
                                        THEN "private" ELSE body.visibility]
         IN  /\ newId("Note") <= MaxItems
             /\ notes' = notes @@ (newId("Note") :> newNote)
             /\ lastId' = [lastId EXCEPT !.Note = newId("Note")]
             /\ cache' = deleteCacheWhere(cache,
                            LAMBDA key :
                               \/ key[1] = "notes:list" /\ key[2] = user
                               \/ key[1] = "notes:public" /\ body.visibility = "public")
             /\ resp' = Respond("createNote", 201, user, newId("Note"),
                                "Note created successfully", newNote)
             /\ UNCHANGED <<planVars, accountVars,
                            progress, bookmarks, highlights, topics>>

SomeRange == [bookId |-> <<"G">>, chapter |-> 1, verseStart |-> 1, verseCount |-> 1]

\* a range, another range, the first range with a blank before the bookId,
\* and ranges that fail validation
BookmarkBodies ==
    {SomeRange,
     [SomeRange EXCEPT !.verseCount = 2],
     [SomeRange EXCEPT !.bookId = <<" ", "G">>],
     [SomeRange EXCEPT !.bookId = NoText],
     [SomeRange EXCEPT !.chapter = 0],
     [SomeRange EXCEPT !.verseStart = Undefined],
     [SomeRange EXCEPT !.verseCount = 0]}

SomeNote == SomeRange @@ [content |-> <<" ", "x">>, visibility |-> NoString]

\* the same with contents and visibilities that pass and that fail
NoteBodies ==
    {SomeNote,
     [SomeNote EXCEPT !.verseCount = 2, !.visibility = "public"],
     [SomeNote EXCEPT !.content = NoText],
     [SomeNote EXCEPT !.content = <<" ">>],
     [SomeNote EXCEPT !.visibility = "friends"],
     [SomeNote EXCEPT !.bookId = <<>>],
     [SomeNote EXCEPT !.verseStart = 0]}

NextCreate ==
    \/ \E user \in Users, body \in BookmarkBodies : createBookmark(user, body)
    \/ \E user \in Users, body \in NoteBodies : createNote(user, body)

SpecCreate == Init /\ [][NextCreate]_vars

----------------------------------------------------------------------------
(* The other handlers of the note controller, with the cache of single     *)
(* notes.  An entry stays in the cache until a handler deletes it (no time *)
(* passes in SpecNotes, so none expires).                                  *)

\* a cache key that leaves the user out
noteCacheKey_byId(id, user) == <<"notes:single", id, "">>

\* `notes:single:${id}:${user._id}`
noteCacheKey(id, user) == <<"notes:single", id, user>>

\* cache.getCache(key): the entry, NoBody if there is none or no connection
getCache(key) ==
    IF cache.isConnected /\ key \in DOMAIN cache.store THEN cache.store[key]
    ELSE NoBody

\* cache.setCache(key, value, ttl)
setCache(key, value) ==
    IF cache.isConnected
    THEN [cache EXCEPT !.store = [k \in DOMAIN @ \cup {key} |->
                                     IF k = key THEN value ELSE @[k]]]
    ELSE cache

getNoteById(user, id) ==
    LET cacheKey == noteCacheKey(id, user)
        found    == findAll(notes, LAMBDA n : n.userId = user) \cap {id}
    IN  IF getCache(cacheKey) # NoBody
        THEN /\ resp' = Respond("getNoteById", 200, user, id,
                                "Note retrieved successfully (from cache)",
                                getCache(cacheKey))
             /\ UNCHANGED <<planVars, accountVars, itemVars>>
        ELSE IF found = {}
        THEN /\ resp' = Respond("getNoteById", 404, user, id, "Note not found", NoBody)
             /\ UNCHANGED <<planVars, accountVars, itemVars>>
        ELSE /\ cache' = setCache(cacheKey, notes[id])
             /\ resp' = Respond("getNoteById", 200, user, id,
                                "Note retrieved successfully", notes[id])
             /\ UNCHANGED <<planVars, accountVars, progress, notes, bookmarks,
                            highlights, topics, lastId>>

\* the validation of updateNote, "" if the body passes
noteUpdateError(body) ==
    IF body.content # NoText /\ trim(body.content) = <<>>
    THEN "content must be a non-empty string"
    ELSE IF body.visibility \notin {NoString, "private", "public"}
    THEN "visibility must be either \"private\" or \"public\""
    ELSE rangeError(body)

\* the assignments of updateNote
applyNoteUpdate(note, body) ==
    [note EXCEPT
        !.bookId     = IF body.bookId # NoText THEN trim(body.bookId) ELSE @,
        !.chapter    = IF body.chapter # Undefined THEN body.chapter ELSE @,
        !.verseStart = IF body.verseStart # Undefined THEN body.verseStart ELSE @,
        !.verseCount = IF body.verseCount # Undefined THEN body.verseCount ELSE @,
        !.content    = IF body.content # NoText THEN trim(body.content) ELSE @,
        !.visibility = IF body.visibility # NoString THEN body.visibility ELSE @]

\* the cache without what updateNote and deleteNote invalidate
invalidateNote(id, user) ==
    deleteCacheWhere(cache,
        LAMBDA key : \/ key = noteCacheKey(id, user)
                     \/ key[1] = "notes:list" /\ key[2] = user
                     \/ key[1] = "notes:public")

updateNote(user, id, body) ==
    IF noteUpdateError(body) # ""
    THEN /\ resp' = Respond("updateNote", 400, user, id, noteUpdateError(body), NoBody)
         /\ UNCHANGED <<planVars, accountVars, itemVars>>
    ELSE IF findAll(notes, LAMBDA n : n.userId = user) \cap {id} = {}
    THEN /\ resp' = Respond("updateNote", 404, user, id, "Note not found", NoBody)
         /\ UNCHANGED <<planVars, accountVars, itemVars>>
    ELSE LET updatedNote == applyNoteUpdate(notes[id], body) IN
         /\ notes' = [notes EXCEPT ![id] = updatedNote]
         /\ cache' = invalidateNote(id, user)
         /\ resp' = Respond("updateNote", 200, user, id,
                            "Note updated successfully", updatedNote)
         /\ UNCHANGED <<planVars, accountVars, progress, bookmarks,
                        highlights, topics, lastId>>

deleteNote(user, id) ==
    IF findAll(notes, LAMBDA n : n.userId = user) \cap {id} = {}
    THEN /\ resp' = Respond("deleteNote", 404, user, id, "Note not found", NoBody)
         /\ UNCHANGED <<planVars, accountVars, itemVars>>
    ELSE /\ notes' = [i \in DOMAIN notes \ {id} |-> notes[i]]
         /\ cache' = invalidateNote(id, user)
         /\ resp' = Respond("deleteNote", 200, user, id,
                            "Note deleted successfully", notes[id])
         /\ UNCHANGED <<planVars, accountVars, progress, bookmarks,
                        highlights, topics, lastId>>

NoUpdate ==
    [bookId |-> NoText, chapter |-> Undefined, verseStart |-> Undefined,
     verseCount |-> Undefined, content |-> NoText, visibility |-> NoString]

\* a new content, a new visibility, and bodies that fail validation
NoteUpdates ==
    {[NoUpdate EXCEPT !.content = <<"y", " ">>],
     [NoUpdate EXCEPT !.visibility = "public"],
     [NoUpdate EXCEPT !.content = <<" ">>],
     [NoUpdate EXCEPT !.visibility = ""],
     [NoUpdate EXCEPT !.verseCount = 0]}

NoteIds == 1..MaxItems

NextNotes ==
    \/ \E user \in Users : createNote(user, SomeNote)
    \/ \E user \in Users, id \in NoteIds : getNoteById(user, id)
    \/ \E user \in Users, id \in NoteIds, body \in NoteUpdates :
          updateNote(user, id, body)
    \/ \E user \in Users, id \in NoteIds : deleteNote(user, id)

SpecNotes == Init /\ [][NextNotes]_vars

----------------------------------------------------------------------------
(* The topic controller: createTopic, updateTopic (rename), deleteTopic.   *)
(* A topic is [userId, name, verses]; a name is a sequence of characters,  *)
(* NoText when the body has none.                                          *)

\* a lookup of the name as it was sent
existingTopic_untrimmed(user, name, id) ==
    findAll(topics, LAMBDA t : t.userId = user /\ t.name = name) \ {id}

\* Topic.findOne({userId, name: name.trim(), _id: {$ne: id}}); createTopic
\* has no _id filter, which is id 0
existingTopic(user, name, id) ==
    findAll(topics, LAMBDA t : t.userId = user /\ t.name = trim(name)) \ {id}

\* !name || name.trim() === ''
nameMissing(name) == name = NoText \/ trim(name) = <<>>

\* the validation of the verses of createTopic, "" if they pass
versesError(verses) ==
    IF \E i \in DOMAIN verses : rangeMissing(verses[i])
    THEN "Each verse must have bookId, chapter, verseStart, and verseCount"
    ELSE IF \E i \in DOMAIN verses : rangeError(verses[i]) # ""
    THEN "Chapter, verseStart, and verseCount must be positive numbers"
    ELSE ""

createTopic(user, body) ==
    IF nameMissing(body.name)
    THEN /\ resp' = Respond("createTopic", 400, user, 0,
                            "Topic name is required and must be a non-empty string", NoBody)
         /\ UNCHANGED <<planVars, accountVars, itemVars>>
    ELSE IF existingTopic(user, body.name, 0) # {}
    THEN /\ resp' = Respond("createTopic", 409, user, 0,
                            "A topic with this name already exists", NoBody)
         /\ UNCHANGED <<planVars, accountVars, itemVars>>
    ELSE IF versesError(body.verses) # ""
    THEN /\ resp' = Respond("createTopic", 400, user, 0, versesError(body.verses), NoBody)
         /\ UNCHANGED <<planVars, accountVars, itemVars>>
    ELSE LET topic == [userId |-> user, name |-> trim(body.name),
                       verses |-> body.verses]
         IN  /\ newId("Topic") <= MaxItems
             /\ topics' = topics @@ (newId("Topic") :> topic)
             /\ lastId' = [lastId EXCEPT !.Topic = newId("Topic")]
             /\ resp' = Respond("createTopic", 201, user, newId("Topic"),
                                "Topic created successfully", topic)
             /\ UNCHANGED <<planVars, accountVars, progress, notes, bookmarks,
                            highlights, cache>>

updateTopic(user, id, body) ==
    IF nameMissing(body.name)
    THEN /\ resp' = Respond("updateTopic", 400, user, id,
                            "Topic name is required and must be a non-empty string", NoBody)
         /\ UNCHANGED <<planVars, accountVars, itemVars>>
    ELSE IF findAll(topics, LAMBDA t : t.userId = user) \cap {id} = {}
    THEN /\ resp' = Respond("updateTopic", 404, user, id, "Topic not found", NoBody)
         /\ UNCHANGED <<planVars, accountVars, itemVars>>
    ELSE IF existingTopic(user, body.name, id) # {}
    THEN /\ resp' = Respond("updateTopic", 409, user, id,
                            "A topic with this name already exists", NoBody)
         /\ UNCHANGED <<planVars, accountVars, itemVars>>
    ELSE LET topic == [topics[id] EXCEPT !.name = trim(body.name)] IN
         /\ topics' = [topics EXCEPT ![id] = topic]
         /\ resp' = Respond("updateTopic", 200, user, id,
                            "Topic updated successfully", topic)
         /\ UNCHANGED <<planVars, accountVars, progress, notes, bookmarks,
                        highlights, cache, lastId>>

deleteTopic(user, id) ==
    IF findAll(topics, LAMBDA t : t.userId = user) \cap {id} = {}
    THEN /\ resp' = Respond("deleteTopic", 404, user, id, "Topic not found", NoBody)
         /\ UNCHANGED <<planVars, accountVars, itemVars>>
    ELSE /\ topics' = [i \in DOMAIN topics \ {id} |-> topics[i]]
         /\ resp' = Respond("deleteTopic", 200, user, id,
                            "Topic deleted successfully", topics[id])
         /\ UNCHANGED <<planVars, accountVars, progress, notes, bookmarks,
                        highlights, cache, lastId>>

\* names with and without surrounding blanks, a blank one and none
TopicNames == {<<"a">>, <<" ", "a">>, <<"b">>, <<" ">>, NoText}

\* no verses, a verse, and a verse that fails validation
TopicBodies ==
    [name : TopicNames, verses : {<<>>}]
        \cup [name : {<<"a">>},
              verses : {<<SomeRange>>, <<[SomeRange EXCEPT !.chapter = 0]>>}]

TopicIds == 1..MaxItems

NextTopics ==
    \/ \E user \in Users, body \in TopicBodies : createTopic(user, body)
    \/ \E user \in Users, id \in TopicIds, name \in TopicNames :
          updateTopic(user, id, [name |-> name])
    \/ \E user \in Users, id \in TopicIds : deleteTopic(user, id)

SpecTopics == Init /\ [][NextTopics]_vars

----------------------------------------------------------------------------
(* createHighlight of the highlight controller and deleteAccount of the    *)
(* auth controller.  A highlight is a verse range with a color.            *)

validColors == {"yellow", "green", "blue", "pink", "purple", "orange", "red"}

createHighlight(user, body) ==
    LET error == IF rangeMissing(body) \/ body.color \in {NoString, ""}
                 THEN "bookId, chapter, verseStart, verseCount, and color are required"
                 ELSE IF body.color \notin validColors
                 THEN "color must be one of: yellow, green, blue, pink, purple, orange, red"
                 ELSE rangeError(body)
    IN
    IF error # ""
    THEN /\ resp' = Respond("createHighlight", 400, user, 0, error, NoBody)
         /\ UNCHANGED <<planVars, accountVars, itemVars>>
    ELSE IF findAll(highlights, LAMBDA h : /\ h.userId = user
                                           /\ h.bookId = trim(body.bookId)
                                           /\ h.chapter = body.chapter
                                           /\ h.verseStart = body.verseStart
                                           /\ h.verseCount = body.verseCount) # {}
    THEN /\ resp' = Respond("createHighlight", 409, user, 0,
                            "Highlight already exists for this verse range", NoBody)
         /\ UNCHANGED <<planVars, accountVars, itemVars>>
    ELSE LET newHighlight == [userId |-> user, bookId |-> trim(body.bookId),
                              chapter |-> body.chapter,
                              verseStart |-> body.verseStart,
                              verseCount |-> body.verseCount,
                              color |-> body.color]
         IN  /\ newId("Highlight") <= MaxItems
             /\ highlights' = highlights @@ (newId("Highlight") :> newHighlight)
             /\ lastId' = [lastId EXCEPT !.Highlight = newId("Highlight")]
             /\ cache' = deleteCacheWhere(cache,
                            LAMBDA key : key[1] = "highlights:list" /\ key[2] = user)
             /\ resp' = Respond("createHighlight", 201, user, newId("Highlight"),
                                "Highlight created successfully", newHighlight)
             /\ UNCHANGED <<planVars, accountVars,
                            progress, notes, bookmarks, topics>>

\* Model.deleteMany({userId})
deleteMany(collection, user) ==
    [id \in {i \in DOMAIN collection : collection[i].userId # user} |-> collection[id]]

\* the six deletions of deleteAccount; reading plans and the cache are not
\* among them
deleteAccount(user) ==
    /\ progress' = [u \in DOMAIN progress \ {user} |-> progress[u]]
    /\ bookmarks' = deleteMany(bookmarks, user)
    /\ notes' = deleteMany(notes, user)
    /\ highlights' = deleteMany(highlights, user)
    /\ topics' = deleteMany(topics, user)
    /\ users' = [u \in DOMAIN users \ {user} |-> users[u]]
    /\ resp' = Respond("deleteAccount", 200, user, 0,
                       "Account and all associated data deleted successfully", NoBody)
    /\ UNCHANGED <<planVars, clock, limiter, otps, cache, lastId>>

\* req.user is a stored user in every request; one user fills every
\* collection, the other one writes notes
NextAccount ==
    \/ \E user \in Owners \cap DOMAIN users :
          createPlan(user, SomeBody) /\ UNCHANGED <<accountVars, itemVars>>
    \/ \E user \in Owners \cap DOMAIN users :
          logReading(user, [bookId |-> "Genesis", chapter |-> 1])
    \/ \E user \in Owners \cap DOMAIN users : createBookmark(user, SomeRange)
    \/ \E user \in DOMAIN users : createNote(user, SomeNote)
    \/ \E user \in Owners \cap DOMAIN users, color \in {"yellow", "black"} :
          createHighlight(user, SomeRange @@ [color |-> color])
    \/ \E user \in Owners \cap DOMAIN users :
          createTopic(user, [name |-> <<"a">>, verses |-> <<>>])
    \/ \E user \in DOMAIN users : deleteAccount(user)

SpecAccount == Init /\ [][NextAccount]_vars

----------------------------------------------------------------------------
(* forgotPassword and resetPassword of the auth controller.  A tick of the *)
(* clock is five minutes.  A reset token is 32 random bytes: the model     *)
(* names it by the user and the tick of its issue, <<>> is no token.  The  *)
(* sending of the mail is taken to succeed.                                *)

CooldownTicks == 2
TokenTicks == 3
HourTicks == 12
MaxResetTicks == HourTicks + 1


\* dayjs().add(15, "minute")
tokenExpiry(now) == now + TokenTicks

\* user.lastResetRequest && dayjs().diff(user.lastResetRequest, "minute") < 10
inCooldown(user, now) ==
    user.lastResetRequest # NoDate /\ now - user.lastResetRequest < CooldownTicks

\* emails that fail emailRegex
MalformedEmails == {"u1x"}

\* the answer of forgotPassword on a store of users, and the store it leaves
forgotPasswordResult(store, email, now) ==
    LET found == {u \in DOMAIN store : store[u].email = email} IN
    IF email = ""
    THEN [status |-> 400, message |-> "Email is required", users |-> store]
    ELSE IF email \in MalformedEmails
    THEN [status |-> 400, message |-> "Please enter a valid email address",
          users |-> store]
    ELSE IF found = {}
    THEN [status |-> 200, message |-> "Password reset email sent.", users |-> store]
    ELSE LET id == CHOOSE u \in found : TRUE IN
         IF inCooldown(store[id], now)
         THEN [status |-> 429,
               message |-> "Please wait 10 minutes before requesting another reset email",
               users |-> store]
         ELSE [status |-> 200, message |-> "Password reset email sent.",
               users |-> [store EXCEPT
                            ![id].resetPasswordToken = <<id, now>>,
                            ![id].resetPasswordExpires = tokenExpiry(now),
                            ![id].lastResetRequest = now]]

forgotPassword(email) ==
    LET r == forgotPasswordResult(users, email, clock) IN
    /\ users' = r.users
    /\ resp' = Respond("forgotPassword", r.status, email, 0, r.message, NoBody)
    /\ UNCHANGED <<planVars, clock, limiter, otps, itemVars>>

\* validatePasswordStrength(password).errors of the passwords of the model
passwordErrors ==
    [empty |-> <<>>,
     weak |-> <<"at least 8 characters", "at least 1 uppercase letter",
                "at least 1 number", "at least 1 special character (@$!%*?&)">>,
     NewPass1 |-> <<>>,
     Other9 |-> <<>>]

resetPassword(body) ==
    IF body.newPassword = "empty" \/ body.confirmPassword = "empty"
    THEN /\ resp' = Respond("resetPassword", 400, "", 0,
                            "Both password fields are required", NoBody)
         /\ UNCHANGED <<planVars, accountVars, itemVars>>
    ELSE IF body.newPassword # body.confirmPassword
    THEN /\ resp' = Respond("resetPassword", 400, "", 0, "Passwords do not match", NoBody)
         /\ UNCHANGED <<planVars, accountVars, itemVars>>
    ELSE IF passwordErrors[body.newPassword] # <<>>
    THEN /\ resp' = Respond("resetPassword", 400, "", 0, "Password must contain", NoBody)
         /\ UNCHANGED <<planVars, accountVars, itemVars>>
    ELSE LET found == {u \in DOMAIN users :
                          /\ users[u].resetPasswordToken = body.token
                          /\ users[u].resetPasswordExpires # NoDate
                          /\ users[u].resetPasswordExpires > clock}
         IN  IF found = {}
             THEN /\ resp' = Respond("resetPassword", 400, "", 0,
                                     "Invalid or expired token", NoBody)
                  /\ UNCHANGED <<planVars, accountVars, itemVars>>
             ELSE LET id == CHOOSE u \in found : TRUE IN
                  /\ users' = [users EXCEPT
                                  ![id].password = hash(body.newPassword),
                                  ![id].resetPasswordToken = <<>>,
                                  ![id].resetPasswordExpires = NoDate]
                  /\ resp' = Respond("resetPassword", 200, id, 0,
                                     "Password reset successful", NoBody)
                  /\ UNCHANGED <<planVars, clock, limiter, otps, itemVars>>

\* an account, no account, a malformed email and none
ResetEmails == {"u1@x", "nobody@x", "u1x", ""}

\* the tokens the mails of u1 can carry, and one that was never issued
ResetTokens == {<<"u1", t>> : t \in 0..MaxResetTicks} \cup {<<"u2", 0>>}

ResetBodies ==
    [token : ResetTokens, newPassword : {"NewPass1"}, confirmPassword : {"NewPass1"}]
        \cup [token : {<<"u1", 0>>}, newPassword : {"empty", "weak", "NewPass1"},
              confirmPassword : {"weak", "Other9"}]

NextReset ==
    \/ \E email \in ResetEmails : forgotPassword(email)
    \/ \E body \in ResetBodies : resetPassword(body)
    \/ passTime(1, MaxResetTicks)

SpecReset == Init /\ [][NextReset]_vars

----------------------------------------------------------------------------
(* updateBookmark and deleteBookmark of the bookmark controller.           *)

\* the assignments of updateBookmark
applyBookmarkUpdate(bookmark, body) ==
    [bookmark EXCEPT
        !.bookId     = IF body.bookId # NoText THEN trim(body.bookId) ELSE @,
        !.chapter    = IF body.chapter # Undefined THEN body.chapter ELSE @,
        !.verseStart = IF body.verseStart # Undefined THEN body.verseStart ELSE @,
        !.verseCount = IF body.verseCount # Undefined THEN body.verseCount ELSE @]

\* the cache without what updateBookmark and deleteBookmark invalidate
invalidateBookmark(id, user) ==
    deleteCacheWhere(cache,
        LAMBDA key : \/ key = <<"bookmarks:single", id, user>>
                     \/ key[1] = "bookmarks:list" /\ key[2] = user)

updateBookmark(user, id, body) ==
    IF rangeError(body) # ""
    THEN /\ resp' = Respond("updateBookmark", 400, user, id, rangeError(body), NoBody)
         /\ UNCHANGED <<planVars, accountVars, itemVars>>
    ELSE IF findAll(bookmarks, LAMBDA b : b.userId = user) \cap {id} = {}
    THEN /\ resp' = Respond("updateBookmark", 404, user, id, "Bookmark not found", NoBody)
         /\ UNCHANGED <<planVars, accountVars, itemVars>>
    ELSE LET updatedBookmark == applyBookmarkUpdate(bookmarks[id], body) IN
         /\ bookmarks' = [bookmarks EXCEPT ![id] = updatedBookmark]
         /\ cache' = invalidateBookmark(id, user)
         /\ resp' = Respond("updateBookmark", 200, user, id,
                            "Bookmark updated successfully", updatedBookmark)
         /\ UNCHANGED <<planVars, accountVars, progress, notes,
                        highlights, topics, lastId>>

deleteBookmark(user, id) ==
    IF findAll(bookmarks, LAMBDA b : b.userId = user) \cap {id} = {}
    THEN /\ resp' = Respond("deleteBookmark", 404, user, id, "Bookmark not found", NoBody)
         /\ UNCHANGED <<planVars, accountVars, itemVars>>
    ELSE /\ bookmarks' = [i \in DOMAIN bookmarks \ {id} |-> bookmarks[i]]
         /\ cache' = invalidateBookmark(id, user)
         /\ resp' = Respond("deleteBookmark", 200, user, id,
                            "Bookmark deleted successfully", bookmarks[id])
         /\ UNCHANGED <<planVars, accountVars, progress, notes,
                        highlights, topics, lastId>>

NoRange ==
    [bookId |-> NoText, chapter |-> Undefined, verseStart |-> Undefined,
     verseCount |-> Undefined]

\* another chapter, the first chapter again, a bookId with a blank, and a
\* body that fails validation
BookmarkUpdates ==
    {[NoRange EXCEPT !.chapter = 2],
     [NoRange EXCEPT !.chapter = 1],
     [NoRange EXCEPT !.bookId = <<"G", " ">>],
     [NoRange EXCEPT !.verseCount = 0]}

NextBookmarks ==
    \/ \E user \in Owners, body \in BookmarkBodies : createBookmark(user, body)
    \/ \E user \in Owners, id \in 1..MaxItems, body \in BookmarkUpdates :
          updateBookmark(user, id, body)
    \/ \E user \in Owners, id \in 1..MaxItems : deleteBookmark(user, id)

SpecBookmarks == Init /\ [][NextBookmarks]_vars

----------------------------------------------------------------------------
(* getPublicNotes of the note controller beside updateNote and deleteNote. *)
(* The handler awaits the cache, then the database, then the cache again:  *)
(* other requests run between its read of the database and its setCache.   *)
(* The requests carry no query, so there is one cache key.  No time        *)
(* passes, so no cache entry expires (the entry lives ten minutes).        *)

\* `notes:public:${JSON.stringify(req.query)}:${page}:${limit}`
publicCacheKey == <<"notes:public", "{}:1:10">>

\* Note.find({visibility: 'public'}) with its count
findPublic ==
    LET ids == findAll(notes, LAMBDA n : n.visibility = "public")
    IN  [data |-> [id \in ids |-> notes[id]], totalItems |-> Cardinality(ids)]

\* getPublicNotes up to its read: answered from the cache, or the public
\* notes of the database found
publicRead(p) ==
    /\ procs[p].pc = "idle"
    /\ IF getCache(publicCacheKey) # NoBody
       THEN /\ resp' = Respond("getPublicNotes", 200, p, 0,
                               "Public notes retrieved successfully (from cache)",
                               getCache(publicCacheKey))
            /\ UNCHANGED procs
       ELSE /\ procs' = [procs EXCEPT ![p] = [pc |-> "found", result |-> findPublic]]
            /\ UNCHANGED resp
    /\ UNCHANGED <<plans, nextId, accountVars, itemVars>>

\* getPublicNotes from its setCache on
publicWrite(p) ==
    /\ procs[p].pc = "found"
    /\ cache' = setCache(publicCacheKey, procs[p].result)
    /\ resp' = Respond("getPublicNotes", 200, p, 0,
                       "Public notes retrieved successfully", procs[p].result)
    /\ procs' = [procs EXCEPT ![p] = [pc |-> "idle"]]
    /\ UNCHANGED <<plans, nextId, accountVars, progress, notes, bookmarks,
                   highlights, topics, lastId>>

PublicNote == [SomeNote EXCEPT !.visibility = "public"]

VisibilityUpdates ==
    {[NoUpdate EXCEPT !.visibility = "private"],
     [NoUpdate EXCEPT !.visibility = "public"]}

NextPublic ==
    \/ \E user \in Users : createNote(user, PublicNote)
    \/ \E user \in Users, id \in NoteIds, body \in VisibilityUpdates :
          updateNote(user, id, body)
    \/ \E user \in Users, id \in NoteIds : deleteNote(user, id)
    \/ \E p \in Procs : publicRead(p)
    \/ \E p \in Procs : publicWrite(p)

SpecPublic == Init /\ [][NextPublic]_vars

----------------------------------------------------------------------------
(* loginWithGoogle of the auth controller.  The request carries an idToken; *)
(* the model draws what Google's tokeninfo answers for it: nothing (the    *)
(* verification fails), or a subject id with or without an email ("" is no *)
(* email).  GOOGLE_CLIENT_ID is taken as not set.                          *)

\* the user a Google login creates; its _id is named by the subject id, as
\* is its email `${googleId}@google.local` when the token has none
googleUser(googleId, email) ==
    [newUser("u1") EXCEPT
        !.email    = IF email # "" THEN toLowerCase(email) ELSE googleId,
        !.password = <<>>,
        !.googleId = googleId]

\* User.findOne({ $or: [{ googleId }, email ? { email } : {}] }): the users
\* that match; the empty filter {} matches every user
googleMatches(store, googleId, email) ==
    {u \in DOMAIN store :
        \/ store[u].googleId = googleId
        \/ IF email # "" THEN store[u].email = toLowerCase(email) ELSE TRUE}

loginWithGoogle(data) ==
    IF ~data.verified
    THEN /\ resp' = Respond("loginWithGoogle", 401, "", 0,
                            "Google token verification failed", NoBody)
         /\ UNCHANGED <<planVars, accountVars, itemVars>>
    ELSE IF data.sub = ""
    THEN /\ resp' = Respond("loginWithGoogle", 401, "", 0, "Invalid Google token", NoBody)
         /\ UNCHANGED <<planVars, accountVars, itemVars>>
    ELSE LET found == googleMatches(users, data.sub, data.email) IN
         /\ IF found = {}
            THEN /\ users' = users @@ (data.sub :> googleUser(data.sub, data.email))
                 /\ resp' = Respond("loginWithGoogle", 200, data.sub, 0,
                                    "Login with Google successful",
                                    [token |-> <<"jwt", data.sub>>])
            ELSE \E id \in found :
                 /\ users' = [users EXCEPT
                                 ![id].googleId = IF @ # "" THEN @ ELSE data.sub]
                 /\ resp' = Respond("loginWithGoogle", 200, id, 0,
                                    "Login with Google successful",
                                    [token |-> <<"jwt", id>>])
         /\ UNCHANGED <<planVars, clock, limiter, otps, itemVars>>

\* what tokeninfo answers: a failure, no subject, and subjects with the
\* email of an account, with a new email and with none
GoogleTokens ==
    [verified : {TRUE}, sub : {"g1", "g2"}, email : {"U1@X", "new@x", ""}]
        \cup {[verified |-> FALSE, sub |-> "", email |-> ""],
              [verified |-> TRUE, sub |-> "", email |-> "u1@x"]}

NextGoogle ==
    \/ \E data \in GoogleTokens : loginWithGoogle(data)
    \/ \E user \in DOMAIN users : deleteAccount(user)

SpecGoogle == Init /\ [][NextGoogle]_vars

----------------------------------------------------------------------------
(* Logins of one account from one client over the time a lock lasts.       *)

LockBodies == [email : {"u1@x"}, password : {"Right1!", "wrong"}]

\* a login, or a limiter window or the time of a lock passes
NextLock ==
    \/ \E body \in LockBodies : login("ip1", body)
    \/ \E ticks \in {LoginWindow, LockTicks} :
          passTime(ticks, LockTicks + 2 * LoginWindow)

SpecLock == Init /\ [][NextLock]_vars

----------------------------------------------------------------------------
(* register, verifyOTP and resendOTP of the auth controller over the OTP   *)
(* collection, a sequence of [email, otp, expiresAt, isUsed,               *)
(* registrationData] in the order of their creation.  A name is modelled   *)
(* by its length.  generateOTP draws a code; the mails are taken to be     *)
(* sent.  The user a registration creates has its email as its _id.        *)

MaxOtps == 2
OtpTicks == 2
MaxNameLength == 50

OtpCodes == {"111111", "222222"}

\* the validation of the User schema and its unique index on email: the
\* save of a new user throws
userSaveFails(store, user) ==
    \/ user.nameLength > MaxNameLength
    \/ \E u \in DOMAIN store : store[u].email = user.email

register(body, otp) ==
    IF body.nameLength = 0 \/ body.email = "" \/ body.password = "empty"
    THEN /\ resp' = Respond("register", 400, body.email, 0,
                            "Name, email, and password are required", NoBody)
         /\ UNCHANGED <<planVars, accountVars, itemVars>>
    ELSE IF body.email \in MalformedEmails
    THEN /\ resp' = Respond("register", 400, body.email, 0,
                            "Please enter a valid email address", NoBody)
         /\ UNCHANGED <<planVars, accountVars, itemVars>>
    ELSE IF passwordErrors[body.password] # <<>>
    THEN /\ resp' = Respond("register", 400, body.email, 0, "Password must contain", NoBody)
         /\ UNCHANGED <<planVars, accountVars, itemVars>>
    ELSE IF \E u \in DOMAIN users : users[u].email = toLowerCase(body.email)
    THEN /\ resp' = Respond("register", 409, body.email, 0,
                            "User with this email already exists", NoBody)
         /\ UNCHANGED <<planVars, accountVars, itemVars>>
    ELSE /\ Len(otps) < MaxOtps
         /\ otps' = Append(otps, [email |-> toLowerCase(body.email), otp |-> otp,
                                  expiresAt |-> clock + OtpTicks, isUsed |-> FALSE,
                                  registrationData |->
                                      [nameLength |-> body.nameLength,
                                       password |-> body.password]])
         /\ resp' = Respond("register", 200, body.email, 0,
                            "OTP sent successfully. Please check your email to complete registration.",
                            NoBody)
         /\ UNCHANGED <<planVars, users, clock, limiter, itemVars>>

verifyOTP(body) ==
    LET found == {i \in DOMAIN otps : /\ otps[i].email = toLowerCase(body.email)
                                      /\ otps[i].otp = body.otp
                                      /\ ~otps[i].isUsed}
        \* .sort({ createdAt: -1 }): the latest of them
        i       == CHOOSE j \in found : \A k \in found : k <= j
        newUser_ == [newUser("u1") EXCEPT
                        !.email = otps[i].email,
                        !.password = hash(otps[i].registrationData.password)]
    IN
    IF body.email = "" \/ body.otp = ""
    THEN /\ resp' = Respond("verifyOTP", 400, body.email, 0,
                            "Email and OTP are required", NoBody)
         /\ UNCHANGED <<planVars, accountVars, itemVars>>
    ELSE IF body.otp \notin OtpCodes
    THEN /\ resp' = Respond("verifyOTP", 400, body.email, 0,
                            "Invalid OTP format. Please enter a 6-digit code.", NoBody)
         /\ UNCHANGED <<planVars, accountVars, itemVars>>
    ELSE IF found = {}
    THEN /\ resp' = Respond("verifyOTP", 400, body.email, 0,
                            "Invalid OTP or email combination", NoBody)
         /\ UNCHANGED <<planVars, accountVars, itemVars>>
    ELSE IF otps[i].expiresAt < clock
    THEN /\ resp' = Respond("verifyOTP", 400, body.email, 0,
                            "OTP has expired. Please request a new one.", NoBody)
         /\ UNCHANGED <<planVars, accountVars, itemVars>>
    ELSE \* otpRecord.isUsed = true; await otpRecord.save(); then the user
         /\ otps' = [otps EXCEPT ![i].isUsed = TRUE]
         /\ IF userSaveFails(users, [email |-> otps[i].email,
                                     nameLength |-> otps[i].registrationData.nameLength])
            THEN /\ resp' = Respond("verifyOTP", 500, body.email, 0,
                                    "Internal server error during OTP verification", NoBody)
                 /\ UNCHANGED users
            ELSE /\ users' = users @@ (otps[i].email :> newUser_)
                 /\ resp' = Respond("verifyOTP", 201, body.email, 0,
                                    "Email verified and account created successfully",
                                    [token |-> <<"jwt", otps[i].email>>])
         /\ UNCHANGED <<planVars, clock, limiter, itemVars>>

resendOTP(email, otp) ==
    LET found == {i \in DOMAIN otps : otps[i].email = toLowerCase(email) /\ ~otps[i].isUsed}
        i     == CHOOSE j \in found : \A k \in found : j <= k
    IN
    IF email = ""
    THEN /\ resp' = Respond("resendOTP", 400, email, 0, "Email is required", NoBody)
         /\ UNCHANGED <<planVars, accountVars, itemVars>>
    ELSE IF \E u \in DOMAIN users : users[u].email = toLowerCase(email)
    THEN /\ resp' = Respond("resendOTP", 409, email, 0,
                            "User with this email already exists", NoBody)
         /\ UNCHANGED <<planVars, accountVars, itemVars>>
    ELSE IF found = {}
    THEN /\ resp' = Respond("resendOTP", 400, email, 0,
                            "No pending registration found for this email. Please register first.",
                            NoBody)
         /\ UNCHANGED <<planVars, accountVars, itemVars>>
    ELSE /\ otps' = [otps EXCEPT ![i].otp = otp, ![i].expiresAt = clock + OtpTicks]
         /\ resp' = Respond("resendOTP", 200, email, 0,
                            "New OTP sent successfully. Please check your email.", NoBody)
         /\ UNCHANGED <<planVars, users, clock, limiter, itemVars>>

\* a short and an overlong name, for a new email and for that of an account
RegisterBodies ==
    [nameLength : {3, MaxNameLength + 1}, email : {"new@x"}, password : {"NewPass1"}]
        \cup {[nameLength |-> 3, email |-> "u1@x", password |-> "NewPass1"],
              [nameLength |-> 0, email |-> "new@x", password |-> "NewPass1"],
              [nameLength |-> 3, email |-> "u1x", password |-> "NewPass1"],
              [nameLength |-> 3, email |-> "new@x", password |-> "weak"]}

VerifyBodies == [email : {"new@x", ""}, otp : OtpCodes \cup {"12"}]

NextRegister ==
    \/ \E body \in RegisterBodies, otp \in OtpCodes : register(body, otp)
    \/ \E body \in VerifyBodies : verifyOTP(body)
    \/ \E email \in {"new@x", "u1@x", ""}, otp \in OtpCodes : resendOTP(email, otp)
    \/ passTime(OtpTicks + 1, OtpTicks + 1)

SpecRegister == Init /\ [][NextRegister]_vars

----------------------------------------------------------------------------
(* What the claims about the distribution measure on a stored plan.  The   *)
(* canonical order is stated here through the rank of a chapter in the     *)
(* whole index, not through the engine's own enumeration.                  *)

RECURSIVE chaptersBefore(_)
chaptersBefore(o) ==
    IF o <= 1 THEN 0 ELSE chaptersBefore(o - 1) + ChapterCount[Books[o - 1]]

\* rank of (book, chapter) among all chapters of the index
rankOf(b, c) == chaptersBefore(orderOf(b)) + c

\* the chapter of rank g
chapterAt(g) ==
    CHOOSE pos \in UNION {{[bookId |-> Books[o], chapter |-> c] :
                             c \in 1..ChapterCount[Books[o]]} : o \in 1..Len(Books)} :
        rankOf(pos.bookId, pos.chapter) = g

planFirstRank(p) == rankOf(p.startBook, p.startChapter)

planLastRank(p) ==
    rankOf(p.endBook, IF p.endChapter = Undefined THEN ChapterCount[p.endBook]
                      ELSE p.endChapter)

planTotalChapters(p) == planLastRank(p) - planFirstRank(p) + 1

unitChapters(r) ==
    [i \in 1..(r.endChapter - r.startChapter + 1) |->
        [bookId |-> r.bookId, chapter |-> r.startChapter + i - 1]]

RECURSIVE readingsChapters(_)
readingsChapters(readings) ==
    IF readings = <<>> THEN <<>>
    ELSE unitChapters(Head(readings)) \o readingsChapters(Tail(readings))

RECURSIVE daysChapters(_)
daysChapters(days) ==
    IF days = <<>> THEN <<>>
    ELSE readingsChapters(Head(days).readings) \o daysChapters(Tail(days))

dayChapterCount(d) == Len(readingsChapters(d.readings))

StoredPlans == {plans[id] : id \in DOMAIN plans}

\* C1: every persisted plan has exactly durationInDays entries in
\* dailyReadings, with dayNumbers exactly 1..durationInDays
C1_LengthIsDuration ==
    \A p \in StoredPlans :
        /\ Len(p.dailyReadings) = p.durationInDays
        /\ \A i \in 1..Len(p.dailyReadings) : p.dailyReadings[i].dayNumber = i

\* C2: for days in 1..totalChapters the chapters of all ReadingUnits, in day
\* order and in reading order inside a day, are exactly the canonical chapter
\* sequence of the range (nothing missing, nothing twice), and the last
\* chapter of day i precedes the first chapter of day j for i < j
C2_CoverageInOrder ==
    \A p \in StoredPlans :
        p.durationInDays <= planTotalChapters(p) =>
            /\ daysChapters(p.dailyReadings) =
                   [k \in 1..planTotalChapters(p) |->
                       chapterAt(planFirstRank(p) + k - 1)]
            /\ \A i, j \in 1..Len(p.dailyReadings) :
                  i < j =>
                    LET ci == readingsChapters(p.dailyReadings[i].readings)
                        cj == readingsChapters(p.dailyReadings[j].readings)
                    IN  /\ ci # <<>> /\ cj # <<>>
                        /\ rankOf(ci[Len(ci)].bookId, ci[Len(ci)].chapter)
                             < rankOf(cj[1].bookId, cj[1].chapter)

C2_Witness ==
    \E p \in StoredPlans :
        /\ p.durationInDays <= planTotalChapters(p)
        /\ p.startBook = "Genesis" /\ p.endBook = "Leviticus"
        /\ Len(p.dailyReadings) = 3
        /\ \E i \in 1..3 : Len(p.dailyReadings[i].readings) = 2

\* C3: for days < totalChapters exactly (totalChapters mod days) days hold
\* ceil(totalChapters/days) chapters, the others floor(totalChapters/days),
\* and all the larger days come before all the smaller ones
C3_RemainderBias ==
    \A p \in StoredPlans :
        LET n == p.durationInDays
            t == planTotalChapters(p)
            lo == t \div n
            hi == (t + n - 1) \div n
            size(i) == dayChapterCount(p.dailyReadings[i])
        IN  n < t =>
              /\ Len(p.dailyReadings) = n
              /\ \A i \in 1..n : size(i) \in {lo, hi}
              /\ hi # lo => Cardinality({i \in 1..n : size(i) = hi}) = t % n
              /\ \A i, j \in 1..n : i < j => size(i) >= size(j)

C3_Witness ==
    \E p \in StoredPlans :
        /\ p.durationInDays < planTotalChapters(p)
        /\ planTotalChapters(p) % p.durationInDays = 2
        /\ dayChapterCount(p.dailyReadings[2]) > dayChapterCount(p.dailyReadings[3])

IsGenesis50ToExodus2In2Days(p) ==
    /\ p.startBook = "Genesis" /\ p.startChapter = 50
    /\ p.endBook = "Exodus" /\ p.endChapter = 2
    /\ p.durationInDays = 2

Unit(b, s, e) == [bookId |-> b, startChapter |-> s, endChapter |-> e]

planReadings(p) == [i \in 1..Len(p.dailyReadings) |-> p.dailyReadings[i].readings]

\* C4 as stated: Genesis 50 through Exodus 2 in 2 days gives
\* day 1 = [Genesis 50] and day 2 = [Exodus 1-2]
C4_AsStated ==
    \A p \in StoredPlans :
        IsGenesis50ToExodus2In2Days(p) =>
            planReadings(p) = << <<Unit("Genesis", 50, 50)>>,
                                 <<Unit("Exodus", 1, 2)>> >>

\* C4 amended: Genesis 50 through Exodus 2 in 2 days gives
\* day 1 = [Genesis 50, Exodus 1] and day 2 = [Exodus 2]: the first
\* (3 mod 2) = 1 day takes the extra chapter
C4_FrontLoaded ==
    \A p \in StoredPlans :
        IsGenesis50ToExodus2In2Days(p) =>
            planReadings(p) = << <<Unit("Genesis", 50, 50), Unit("Exodus", 1, 1)>>,
                                 <<Unit("Exodus", 2, 2)>> >>

C4_Witness ==
    \E p \in StoredPlans :
        IsGenesis50ToExodus2In2Days(p) /\ Len(p.dailyReadings) = 2

\* C5: the distribution has exactly min(days, totalChapters) days, none of
\* them empty; when days > totalChapters each day holds exactly one chapter
C5_CappedNoEmptyDay ==
    \A p \in StoredPlans :
        LET t == planTotalChapters(p) IN
        /\ Len(p.dailyReadings) = Min(p.durationInDays, t)
        /\ \A i \in 1..Len(p.dailyReadings) :
              /\ p.dailyReadings[i].readings # <<>>
              /\ dayChapterCount(p.dailyReadings[i]) >= 1
              /\ p.durationInDays > t => dayChapterCount(p.dailyReadings[i]) = 1

C5_Witness ==
    \E p \in StoredPlans :
        /\ p.durationInDays > planTotalChapters(p)
        /\ Len(p.dailyReadings) = 3

----------------------------------------------------------------------------
(* Claims about the plan handlers.                                         *)

\* the range of a body fails validation: an unknown book, a chapter outside
\* 1..chapterCount of its book, or a start after the end in canonical order
rangeFailsValidation(body) ==
    LET sc == IF body.startChapter = Undefined THEN 1 ELSE body.startChapter IN
    \/ \A o \in 1..Len(Books) : Books[o] # body.startBook
    \/ \A o \in 1..Len(Books) : Books[o] # body.endBook
    \/ LET ec == IF body.endChapter = Undefined THEN ChapterCount[body.endBook]
                 ELSE body.endChapter
       IN  \/ sc \notin 1..ChapterCount[body.startBook]
           \/ ec \notin 1..ChapterCount[body.endBook]
           \/ rankOf(body.startBook, sc) > rankOf(body.endBook, ec)

\* C6: every step that answers a createPlan request whose range fails
\* validation answers 400 and leaves the set of stored plans unchanged (a
\* createPlan step that does anything else is the step of no such request)
C6_InvalidRangeRejected ==
    [][resp'.op = "createPlan" =>
          \/ resp'.status = 400 /\ plans' = plans
          \/ \A user \in Owners, body \in PlanBodies :
                ~(rangeFailsValidation(body) /\ createPlan(user, body))]_vars

C6_Witness ==
    /\ resp.op = "createPlan"
    /\ resp.status = 400
    /\ resp.message = "RangeReversed"
    /\ DOMAIN plans # {}

allDaysCompleted(p) ==
    \A i \in 1..Len(p.dailyReadings) : p.dailyReadings[i].isCompleted

\* C7 as stated: in every state a plan has status 'completed' exactly when all
\* its DailyReadings are completed
C7_CompletedIffAllDays ==
    \A p \in StoredPlans : allDaysCompleted(p) <=> p.status = "completed"

\* C7 amended: a plan is created 'active' with no completed day; a successful
\* markDayComplete leaves status 'completed' when all days are then completed
\* and leaves status as it was otherwise; any other change of status is an
\* updatePlan writing the status of its body
C7_MarkDayFlipsStatus ==
    [][\A id \in DOMAIN plans' :
          /\ id \notin DOMAIN plans =>
                /\ plans'[id].status = "active"
                /\ \A i \in 1..Len(plans'[id].dailyReadings) :
                      ~plans'[id].dailyReadings[i].isCompleted
          /\ (resp'.op = "markDayComplete" /\ resp'.status = 200 /\ resp'.id = id) =>
                /\ allDaysCompleted(plans'[id]) => plans'[id].status = "completed"
                /\ (~allDaysCompleted(plans'[id]) /\ id \in DOMAIN plans) =>
                      plans'[id].status = plans[id].status
          /\ (id \in DOMAIN plans /\ plans'[id].status # plans[id].status) =>
                \/ resp'.op = "updatePlan" /\ resp'.status = 200 /\ resp'.id = id
                \/ resp'.op = "markDayComplete" /\ resp'.status = 200
                     /\ resp'.id = id /\ plans'[id].status = "completed"]_vars

C7_Witness ==
    /\ resp.op = "markDayComplete"
    /\ resp.status = 200
    /\ resp.id \in DOMAIN plans
    /\ Len(plans[resp.id].dailyReadings) = 2
    /\ allDaysCompleted(plans[resp.id])
    /\ plans[resp.id].status = "completed"

\* C8: concurrent markDayComplete requests are never refused by a version
\* check: every request that found its plan and its day is answered 200 (and
\* C8_Witness is the state where both days of a plan are completed by two
\* requests answered 200 and status is still 'active')
C8_NoVersionCheck ==
    \A p \in Procs :
        (procs[p].pc = "done" /\ procs[p].day # 0) => procs[p].status = 200

C8_Witness ==
    /\ procs["r1"].pc = "done" /\ procs["r2"].pc = "done"
    /\ procs["r1"].status = 200 /\ procs["r2"].status = 200
    /\ procs["r1"].id = procs["r2"].id
    /\ procs["r1"].day # procs["r2"].day
    /\ procs["r1"].id \in DOMAIN plans
    /\ allDaysCompleted(plans[procs["r1"].id])
    /\ plans[procs["r1"].id].status = "active"

\* C9: getPlanById answers 404 for an id that is not stored; for a stored plan
\* 200 with the plan exactly when the requester is the owner, the plan is
\* public or the requester is in sharedWith, and 403 otherwise
C9_GetPlanByIdAccess ==
    resp.op = "getPlanById" =>
        IF resp.id \notin DOMAIN plans
        THEN resp.status = 404 /\ resp.body = NoBody
        ELSE LET p == plans[resp.id] IN
             IF p.userId = resp.user \/ p.isPublic \/ resp.user \in p.sharedWith
             THEN resp.status = 200 /\ resp.body = p
             ELSE resp.status = 403 /\ resp.body = NoBody

C9_Witness ==
    /\ resp.op = "getPlanById"
    /\ resp.status = 200
    /\ resp.id \in DOMAIN plans
    /\ plans[resp.id].userId # resp.user
    /\ ~plans[resp.id].isPublic
    /\ resp.user \in plans[resp.id].sharedWith

isViewerOnly(p, user) ==
    p.userId # user /\ (p.isPublic \/ user \in p.sharedWith)

\* C10 as stated: a requester who is not the owner but for whom the plan is
\* public or shared gets 200 from getPlanProgress
C10_ViewerReadsProgress ==
    (/\ resp.op = "getPlanProgress"
     /\ resp.id \in DOMAIN plans
     /\ isViewerOnly(plans[resp.id], resp.user)) => resp.status = 200

\* C10 amended: getPlanProgress answers 200 with the percentages to the owner
\* only; every other requester of a stored plan gets 403 and no data, also
\* when the plan is public or shared with the requester
C10_ProgressOwnerOnly ==
    (resp.op = "getPlanProgress" /\ resp.id \in DOMAIN plans) =>
        LET p == plans[resp.id] IN
        IF p.userId = resp.user
        THEN /\ resp.status = 200
             /\ resp.body.status = p.status
             /\ resp.body.totalDays = p.durationInDays
        ELSE resp.status = 403 /\ resp.body = NoBody

C10_Witness ==
    /\ resp.op = "getPlanProgress"
    /\ resp.status = 403
    /\ resp.id \in DOMAIN plans
    /\ plans[resp.id].isPublic
    /\ resp.user \in plans[resp.id].sharedWith

----------------------------------------------------------------------------
\* C11: updatePlan, deletePlan and markDayComplete by a requester who is not
\* the owner of the plan are answered 404 and leave every stored plan as it
\* was, also when the plan is public or shared with the requester.
C11_NonOwnerCannotMutate ==
    [][(/\ resp'.op \in {"updatePlan", "deletePlan", "markDayComplete"}
        /\ resp'.id \in DOMAIN plans
        /\ plans[resp'.id].userId # resp'.user)
          => resp'.status = 404 /\ plans' = plans]_vars

\* u2 asked to delete a plan of u1 that is public, shared with u2 and has a
\* completed day; it was refused and the plan is still there
C11_Witness ==
    /\ resp.op = "deletePlan" /\ resp.user = "u2" /\ resp.status = 404
    /\ resp.id \in DOMAIN plans
    /\ plans[resp.id].userId = "u1"
    /\ plans[resp.id].isPublic
    /\ "u2" \in plans[resp.id].sharedWith
    /\ \E i \in 1..Len(plans[resp.id].dailyReadings) :
          plans[resp.id].dailyReadings[i].isCompleted

----------------------------------------------------------------------------
\* the route parameter is the decimal numeral of no day number of the plan
namesNoDay(plan, dayNumber) ==
    \A i \in 1..Len(plan.dailyReadings) :
        ToString(plan.dailyReadings[i].dayNumber) # dayNumber

----------------------------------------------------------------------------
\* C13: an updatePlan that is answered 200 changes at most the name, the
\* status and isPublic of the plan it names; every other field of that plan
\* and every other plan are as before, whatever else the body carries.
C13_UpdateFrame ==
    [][resp'.op = "updatePlan" /\ resp'.status = 200 =>
          /\ resp'.id \in DOMAIN plans
          /\ DOMAIN plans' = DOMAIN plans
          /\ \A other \in DOMAIN plans \ {resp'.id} : plans'[other] = plans[other]
          /\ plans'[resp'.id] =
                [plans[resp'.id] EXCEPT !.name     = plans'[resp'.id].name,
                                        !.status   = plans'[resp'.id].status,
                                        !.isPublic = plans'[resp'.id].isPublic]]_vars

\* the owner renamed a plan with a body that also carried another owner,
\* range, duration, day list and share list; the plan kept its own
C13_Witness ==
    /\ resp.op = "updatePlan" /\ resp.status = 200
    /\ resp.id \in DOMAIN plans
    /\ plans[resp.id].name = <<"b">>
    /\ plans[resp.id].userId = "u1"
    /\ plans[resp.id].durationInDays = 2
    /\ plans[resp.id].sharedWith = {"u2"}
    /\ Len(plans[resp.id].dailyReadings) = 2
    /\ plans[resp.id].dailyReadings[1].isCompleted

----------------------------------------------------------------------------
(* Claims about the reading streak.                                        *)

\* the calendar day an instant lies in
dayOf(t) == t \div DayTicks

\* C14: a logReading answered 200 (a step in which no time passes) leaves
\* the streak of the user as the calendar-day distance d from the previous
\* streak.lastDate to today says:
\* current is 1 without a previous date, unchanged for d = 0, one more for
\* d = 1, 1 for d > 1; longest is the larger of the previous longest and the
\* new current; lastDate is today.
C14_StreakRule ==
    [][clock' = clock /\ resp'.op = "logReading" /\ resp'.status = 200 =>
          LET prev == users[resp'.user].streak
              new  == users'[resp'.user].streak
              d    == dayOf(clock) - dayOf(prev.lastDate)
          IN  /\ new.current = IF prev.lastDate = NoDate THEN 1
                               ELSE IF d = 0 THEN prev.current
                               ELSE IF d = 1 THEN prev.current + 1
                               ELSE 1
              /\ d > 1 \/ d = 1 \/ d = 0 \/ prev.lastDate = NoDate
              /\ new.longest = IF prev.longest > new.current
                               THEN prev.longest ELSE new.current
              /\ dayOf(new.lastDate) = dayOf(clock)
              /\ resp'.body.streak = new]_vars

\* a reading was logged after a gap: the streak is back at 1 and the longest
\* streak, of two or more consecutive days, is kept
C14_Witness ==
    /\ resp.op = "logReading" /\ resp.status = 200
    /\ users[resp.user].streak.current = 1
    /\ users[resp.user].streak.longest >= 2
    /\ dayOf(users[resp.user].streak.lastDate) = dayOf(clock)

----------------------------------------------------------------------------
(* Claims about login.                                                     *)

\* the requests of a client the limiter has counted in the running window
hitsInWindow(ip) ==
    IF ip \in DOMAIN limiter /\ clock < limiter[ip].resetTime
    THEN limiter[ip].totalHits ELSE 0

\* C15: every login request of a client is counted in the client's running
\* 15-minute window; a request that finds five or more counted is answered
\* 429 and changes no user; so at most five requests of one window reach
\* the handler.
C15_LoginLimit ==
    [][clock' = clock /\ resp'.op = "login" =>
          LET ip == resp'.user IN
          /\ limiter'[ip].totalHits = hitsInWindow(ip) + 1
          /\ limiter'[ip].resetTime =
                IF hitsInWindow(ip) = 0 THEN clock + LoginWindow
                ELSE limiter[ip].resetTime
          /\ hitsInWindow(ip) >= 5 => resp'.status = 429 /\ users' = users
          /\ hitsInWindow(ip) < 5 => resp'.status # 429]_vars

\* the seventh request of a window was answered 429, ten minutes into the
\* window; four wrong passwords were handled before
C15_Witness ==
    /\ resp.op = "login" /\ resp.status = 429
    /\ limiter[resp.user].totalHits = 7
    /\ clock > 0 /\ clock < limiter[resp.user].resetTime
    /\ users["u1"].failedLoginAttempts = 4

\* C16: once five wrong-password logins for the account have been handled
\* and no login has succeeded, the account is locked and the failure that
\* locked it was answered 423.
C16_LockedAfterFive ==
    (\A p \in LoginProcs : procs[p].pc = "done" /\ procs[p].wrongPassword)
        => /\ users["u1"].failedLoginAttempts >= MaxFailedAttempts
           /\ users["u1"].accountLockedUntil # NoDate
           /\ \E p \in LoginProcs : procs[p].status = 423

----------------------------------------------------------------------------
(* Claims about bookmarks and notes.                                       *)

\* the documents of a collection, owned by the user, with the range of the body
sameRange(collection, user, body) ==
    {id \in DOMAIN collection :
        /\ collection[id].userId = user
        /\ collection[id].bookId = body.bookId
        /\ collection[id].chapter = body.chapter
        /\ collection[id].verseStart = body.verseStart
        /\ collection[id].verseCount = body.verseCount}

\* C17 as stated: a createBookmark or createNote of a user who has an item
\* with the bookId, chapter, verseStart and verseCount of the body is
\* answered 409 and leaves the collection as it was.
C17_DuplicateIs409 ==
    [][/\ resp'.op = "createBookmark" =>
            \A body \in BookmarkBodies :
               (/\ sameRange(bookmarks, resp'.user, body) # {}
                /\ createBookmark(resp'.user, body))
                  => resp'.status = 409 /\ bookmarks' = bookmarks
       /\ resp'.op = "createNote" =>
            \A body \in NoteBodies :
               (/\ sameRange(notes, resp'.user, body) # {}
                /\ createNote(resp'.user, body))
                  => resp'.status = 409 /\ notes' = notes]_vars

\* C17: a createBookmark of a user who has a bookmark with the bookId,
\* chapter, verseStart and verseCount of the body, and a createNote of a
\* user who has a note with them whose content and visibility pass the
\* validation, are answered 409; a createNote for such a range is answered
\* 409 or 400; each leaves the collection as it was.
C17_DuplicateRejected ==
    [][/\ resp'.op = "createBookmark" =>
            \A body \in BookmarkBodies :
               (/\ sameRange(bookmarks, resp'.user, body) # {}
                /\ createBookmark(resp'.user, body))
                  => resp'.status = 409 /\ bookmarks' = bookmarks
       /\ resp'.op = "createNote" =>
            \A body \in NoteBodies :
               (/\ sameRange(notes, resp'.user, body) # {}
                /\ createNote(resp'.user, body))
                  => /\ notes' = notes
                     /\ resp'.status = IF noteFieldsError(body) = "" THEN 409 ELSE 400]_vars

\* a user's second note for a range was refused; the user has one note and
\* the other user has one for the same range
C17_Witness ==
    /\ resp.op = "createNote" /\ resp.status = 409
    /\ \E id \in DOMAIN notes : notes[id].userId = resp.user
    /\ \A i, j \in DOMAIN notes :
          /\ notes[i].bookId = <<"G">> /\ notes[i].verseCount = 1
          /\ notes[i].userId = notes[j].userId => i = j
    /\ Cardinality(DOMAIN notes) = 2
    /\ \E id \in DOMAIN bookmarks : bookmarks[id].verseCount = 2

\* the step is a read, update or delete of a stored note by a user who is
\* not its owner
byOtherUser ==
    /\ resp'.op \in {"getNoteById", "updateNote", "deleteNote"}
    /\ resp'.id \in DOMAIN notes
    /\ notes[resp'.id].userId # resp'.user

\* C18 as stated: getNoteById, updateNote and deleteNote on a note of
\* another user are answered 404 without any content of the note and leave
\* the note as it was.
C18_OtherUserGets404 ==
    [][byOtherUser =>
          /\ resp'.status = 404
          /\ resp'.body = NoBody
          /\ notes' = notes]_vars

\* C18: getNoteById, updateNote and deleteNote on a note of another user
\* are answered without any content of the note, also when the owner's read
\* has put the note into the cache, and leave the note as it was; the
\* answer is 404, but for an updateNote whose body fails validation, which
\* is answered 400.
C18_OtherUserRefused ==
    [][byOtherUser =>
          /\ resp'.body = NoBody
          /\ notes' = notes
          /\ resp'.op # "updateNote" => resp'.status = 404
          /\ resp'.op = "updateNote" =>
                \A body \in NoteUpdates :
                    updateNote(resp'.user, resp'.id, body) =>
                        resp'.status = IF noteUpdateError(body) = "" THEN 404 ELSE 400]_vars

\* the note is in the cache from its owner's read, and the other user's
\* read of it was answered 404
C18_Witness ==
    /\ resp.op = "getNoteById" /\ resp.status = 404
    /\ resp.id \in DOMAIN notes
    /\ notes[resp.id].userId # resp.user
    /\ noteCacheKey(resp.id, notes[resp.id].userId) \in DOMAIN cache.store
    /\ cache.store[noteCacheKey(resp.id, notes[resp.id].userId)] = notes[resp.id]

\* the user has a topic other than `id` whose trimmed name is that of `name`
nameTaken(user, name, id) ==
    \E i \in DOMAIN topics \ {id} :
        topics[i].userId = user /\ trim(topics[i].name) = trim(name)

\* C19: handled one after the other, createTopic, updateTopic and
\* deleteTopic never leave two topics of one user with the same trimmed
\* name; a create, or a rename of an own topic, to a name another topic of
\* the user has is answered 409 and changes no topic.
C19_UniqueTopicNames ==
    /\ [](\A i, j \in DOMAIN topics :
             (i # j /\ topics[i].userId = topics[j].userId)
                 => trim(topics[i].name) # trim(topics[j].name))
    /\ [][\A name \in TopicNames \ {<<" ">>, NoText} :
             /\ (\E body \in TopicBodies :
                    body.name = name /\ createTopic(resp'.user, body))
                 /\ nameTaken(resp'.user, name, 0)
                 => resp'.status = 409 /\ topics' = topics
             /\ updateTopic(resp'.user, resp'.id, [name |-> name])
                 /\ resp'.id \in DOMAIN topics
                 /\ topics[resp'.id].userId = resp'.user
                 /\ nameTaken(resp'.user, name, resp'.id)
                 => resp'.status = 409 /\ topics' = topics]_vars

\* a rename of a topic to the name of another topic of the user was
\* answered 409
C19_Witness ==
    /\ resp.op = "updateTopic" /\ resp.status = 409
    /\ \E i, j \in DOMAIN topics :
          /\ i = resp.id /\ j # i
          /\ topics[i].userId = resp.user /\ topics[j].userId = resp.user

\* C20: after deleteAccount answered 200, the user's record is gone and no
\* progress, bookmark, note, highlight, topic or reading plan of that user
\* is stored.
C20_NothingRemains ==
    (resp.op = "deleteAccount" /\ resp.status = 200)
        => /\ resp.user \notin DOMAIN users
           /\ resp.user \notin DOMAIN progress
           /\ \A id \in DOMAIN bookmarks : bookmarks[id].userId # resp.user
           /\ \A id \in DOMAIN notes : notes[id].userId # resp.user
           /\ \A id \in DOMAIN highlights : highlights[id].userId # resp.user
           /\ \A id \in DOMAIN topics : topics[id].userId # resp.user
           /\ \A id \in DOMAIN plans : plans[id].userId # resp.user

\* the token is the one stored for its user: issued, not used and not
\* replaced by a later one
unusedToken(token) ==
    /\ token[1] \in DOMAIN users
    /\ users[token[1]].resetPasswordToken = token

\* C21: resetPassword with valid matching passwords and a token of
\* forgotPassword that was not used succeeds at every time before one
\* hour after the token was issued, and is answered 'Invalid or expired
\* token' from then on.
C21_TokenLivesOneHour ==
    [][\A body \in ResetBodies :
          (/\ resetPassword(body)
           /\ body.newPassword = body.confirmPassword
           /\ passwordErrors[body.newPassword] = <<>>
           /\ body.newPassword # "empty"
           /\ unusedToken(body.token))
          => IF clock < body.token[2] + HourTicks
             THEN resp'.status = 200
             ELSE resp'.status = 400 /\ resp'.message = "Invalid or expired token"]_vars

\* the store without the account of the email
withoutAccount(store, email) ==
    [u \in {v \in DOMAIN store : store[v].email # email} |-> store[u]]

\* C22: a well-formed forgotPassword request is answered with the same
\* status and message on the store where the email has an account as on
\* the store where it has none.  The second run never writes, since the
\* handler returns before it does, so its store after the same requests is
\* the first run's without the account.
C22_GenericResponse ==
    [][\A email \in ResetEmails \ ({""} \cup MalformedEmails) :
          forgotPassword(email) =>
              LET other == forgotPasswordResult(withoutAccount(users, email),
                                                email, clock)
              IN  /\ resp'.status = other.status
                  /\ resp'.message = other.message]_vars

\* C23: the progress returned for a plan has totalDays equal to the number
\* of days stored in the plan and both percentages (in hundredths of a
\* percent) in 0..100; when every day of the plan is marked complete it has
\* completedDays = totalDays and both percentages at 100.
C23_ProgressOfCompletedPlan ==
    (resp.op = "getPlanProgress" /\ resp.status = 200)
        => LET plan == plans[resp.id]
               data == resp.body
           IN  /\ data.totalDays = Len(plan.dailyReadings)
               /\ data.percentDays \in 0..10000
               /\ data.percentChapters \in 0..10000
               /\ (\A i \in DOMAIN plan.dailyReadings :
                      plan.dailyReadings[i].isCompleted)
                   => /\ plan.status = "completed"
                      /\ data.completedDays = data.totalDays
                      /\ data.percentDays = 10000
                      /\ data.percentChapters = 10000

\* C24: after createBookmark, updateBookmark and deleteBookmark requests of
\* one user no two bookmarks of the user have the same bookId, chapter,
\* verseStart and verseCount.
C24_UniqueBookmarks ==
    \A i, j \in DOMAIN bookmarks :
        (i # j /\ bookmarks[i].userId = bookmarks[j].userId)
            => <<bookmarks[i].bookId, bookmarks[i].chapter,
                 bookmarks[i].verseStart, bookmarks[i].verseCount>>
               # <<bookmarks[j].bookId, bookmarks[j].chapter,
                    bookmarks[j].verseStart, bookmarks[j].verseCount>>

\* C25: with the cache connected, a getPublicNotes request that starts
\* when a note is private or deleted, that is after the updateNote or
\* deleteNote that made it so has completed, is answered without that
\* note.  A request answered from the cache starts and ends in one step;
\* one that reads the database after the update finds the note not public.
C25_NoStalePublicNote ==
    [][(/\ cache.isConnected
        /\ \E p \in Procs : publicRead(p)
        /\ resp' # resp
        /\ resp'.op = "getPublicNotes")
          => \A id \in DOMAIN resp'.body.data :
                id \in DOMAIN notes /\ notes[id].visibility = "public"]_vars

\* C26: loginWithGoogle issues its token for a stored user whose googleId
\* is the subject id of the Google token or whose email is the email of
\* the Google token, or for the user it creates; with a token without
\* email a user with another googleId is never the one.
C26_GoogleIdentity ==
    [][\A data \in GoogleTokens :
          (loginWithGoogle(data) /\ resp'.status = 200)
          => \/ resp'.user \notin DOMAIN users
             \/ users[resp'.user].googleId = data.sub
             \/ /\ data.email # ""
                /\ users[resp'.user].email = toLowerCase(data.email)]_vars

\* the account has a lock that has expired
lockExpired(user) ==
    user.accountLockedUntil # NoDate /\ user.accountLockedUntil <= clock

\* C27: failedLoginAttempts never exceeds 5, and a wrong-password login
\* that the limiter lets through after the account's lock has expired is
\* answered 401 and sets no new lock.
C27_FreshAttemptsAfterLock ==
    [][clock' = clock /\ resp'.op = "login" =>
          /\ users'["u1"].failedLoginAttempts <= MaxFailedAttempts
          /\ (/\ lockExpired(users["u1"])
              /\ login(resp'.user, [email |-> "u1@x", password |-> "wrong"])
              /\ resp'.status # 429)
              => /\ resp'.status = 401
                 /\ ~isAccountLocked(users'["u1"])]_vars

\* C28: a verifyOTP that is not answered 201 leaves the isUsed flag of
\* every OTP record as it was.
C28_FailedVerifyKeepsOtp ==
    [][(clock' = clock /\ resp'.op = "verifyOTP" /\ resp'.status # 201)
          => \A i \in DOMAIN otps : otps'[i].isUsed = otps[i].isUsed]_vars

\* C29: from the streak (0, 0, null) on, under logReading requests on days
\* that never go back, after a logReading answered 200 the user's streak
\* has longest >= current >= 1; in every step longest does not decrease
\* and current grows by at most 1, and only with a reading on a later
\* calendar day than the one before (or the first reading).
C29_StreakBounds ==
    [][\A u \in DOMAIN users :
          LET prev == users[u].streak
              new  == users'[u].streak
          IN  /\ new.longest >= new.current
              /\ new.longest >= prev.longest
              /\ new.current <= prev.current + 1
              /\ new.current > prev.current
                  => \/ prev.lastDate = NoDate
                     \/ dayOf(new.lastDate) > dayOf(prev.lastDate)
              /\ (clock' = clock /\ resp'.op = "logReading"
                  /\ resp'.status = 200 /\ resp'.user = u)
                  => new.current >= 1]_vars

\* a reading was logged on each of the first three days: the streak and the
\* longest streak are 3
C29_Witness ==
    /\ resp.op = "logReading" /\ resp.status = 200
    /\ users[resp.user].streak.current = 3
    /\ users[resp.user].streak.longest = 3
    /\ dayOf(clock) = 2

====
